---------------------------- MODULE Spec2Model ----------------------------
(***************************************************************************)
(* A model of the il-elections preprocessing code base:                    *)
(*   - utils/locally_memoize.py   the disk-backed function-result cache    *)
(*   - data/geodata_fetcher.py    the geocoding fetcher built on it        *)
(*   - data/data.py               the typed tabular records                *)
(*   - data/parsers.py            the parser registries, the PDF parser    *)
(*                                and the party-code transliteration table *)
(*   - pipelines/preprocessing    preprocess() and the CLI main()          *)
(*   - utils/data_utils.py        address cleaning, vote aggregation and   *)
(*                                the covering grid                        *)
(*   - utils/plot_utils.py        the per-location tooltip                 *)
(*                                                                         *)
(* Strings whose characters matter (addresses) are tuples of one-character *)
(* strings.  Python's None and the absence of a file are tagged records.   *)
(***************************************************************************)
EXTENDS Integers, Sequences, FiniteSets, TLC

VARIABLES
    \* ---- local cache + geocoding fetcher (SpecMemo)
    cache,          \* .locally_memoize/_geocode_address/: digest -> pickled result | NoFile
    env,            \* the running process's environment: GEOFETCHER_CACHE_ONLY, GEOCODING_API_KEY
    func_calls,     \* per argument tuple: times the wrapped function body ran
    last,           \* what the most recent fetch_geocode_data call did
    \* ---- typed tabular records (SpecSchema)
    record_class,   \* the TypeAwareDataFrame subclass being constructed
    df,             \* the pandas table handed to it: column name -> dtype
    construction,   \* what the dataclass constructor did
    \* ---- party-code transliteration table (SpecTranscribe)
    transcribe,     \* the dict bound to _HEBREW_TO_ENGLISH_TRASCRIBE
    module_load,    \* what the assert statement under the table did
    \* ---- PDF metadata parser (SpecParsers)
    converted,      \* PDF sources that have a sibling <name>.xlsx file
    parse_count,    \* per PDF source: calls of BallotsMetadataPDFParser.parse
    parse_result,   \* what the most recent parse call did
    \* ---- preprocess() and the CLI main() (SpecCLI)
    config,         \* PreprocessingConfig.campaigns as loaded from the YAML file
    flags,          \* the command-line flags override and single_campaign
    out_files,      \* output folder: campaign name -> state of its .metadata and .data
    pc,             \* where main() and the preprocess() generator stand
    todo,           \* campaigns the generator has not started yet
    current,        \* the campaign being processed
    parsed,         \* source files handed to a parser in this run
    reported,       \* campaigns whose analysis report was printed in this run
    yields,         \* names of the pairs the generator has yielded, in order
    exit_status,    \* how the process ended
    \* ---- pure functions of utils/ and of the join (one specification each)
    call,           \* the function applied most recently and its arguments
    returned,       \* what that application returned
    \* ---- reconciliation and enrich_metadata_with_geolocation (SpecPool)
    raw_campaign_data, \* the parsed votes and metadata, and what the geocoder answers
    reconciled_metadata_df, \* preprocess()'s metadata_df: rows in order, each with its index label
    futures,        \* per locality name: where its task in the thread pool stands
    finished,       \* locality names in the order their tasks ended
    enrich_result,  \* what enrich_metadata_with_geolocation returned or raised
    pool_pc,        \* where preprocess() stands: reconcile, dispatch, running, done
    \* ---- memoized calls made by the worker threads (SpecThreads)
    thread_pc,      \* per worker thread: the line of _inner_func it stands at
    thread_call,    \* per worker thread: the address of its call and the calls it has made
    cache_files,    \* the cache folder: digest -> absent, opened (created, not yet dumped), written
    writers,        \* per digest: the threads that opened the file for writing
    torn            \* the threads whose pickle.load read a file that was not yet dumped

memoVars == <<cache, env, func_calls, last>>
schemaVars == <<record_class, df, construction>>
transcribeVars == <<transcribe, module_load>>
parserVars == <<converted, parse_count, parse_result>>
cliVars == <<config, flags, out_files, pc, todo, current, parsed, reported, yields,
            exit_status>>
functionVars == <<call, returned>>
poolVars == <<raw_campaign_data, reconciled_metadata_df, futures, finished, enrich_result, pool_pc>>
threadVars == <<thread_pc, thread_call, cache_files, writers, torn>>
vars == <<memoVars, schemaVars, transcribeVars, parserVars, cliVars, functionVars, poolVars,
          threadVars>>

-----------------------------------------------------------------------------
(* Python values *)

None == [kind |-> "None"]
\* None where a string is expected (kept comparable with strings).
NoneStr == <<"None">>
NoFile == [kind |-> "NoFile"]
List(items) == [kind |-> "list", items |-> items]
GeoDataResults(longitude, latitude) ==
    [kind |-> "GeoDataResults", longitude |-> longitude, latitude |-> latitude]

-----------------------------------------------------------------------------
(* data_utils.clean_hebrew_address *)

\* Characters matched by the class [\w\d]; every other character is not.
WordChars == {"a", "b", "c", "v", "1"}
OtherChars == {" ", "-", "."}

RECURSIVE DropNonWord(_)
DropNonWord(s) ==
    IF s = <<>> THEN <<>>
    ELSE IF Head(s) \in WordChars THEN s
    ELSE DropNonWord(Tail(s))

\* Mutant of ReSubNonWord: the pattern without `+`, every non-word character
\* becomes a space of its own.
RECURSIVE ReSubNonWord_each_character(_)
ReSubNonWord_each_character(s) ==
    IF s = <<>> THEN <<>>
    ELSE IF Head(s) \in WordChars
    THEN <<Head(s)>> \o ReSubNonWord_each_character(Tail(s))
    ELSE <<" ">> \o ReSubNonWord_each_character(Tail(s))

\* re.sub(r'[^\w\d]+', ' ', s): every maximal run of non-word characters
\* becomes one space.
RECURSIVE ReSubNonWord(_)
ReSubNonWord(s) ==
    IF s = <<>> THEN <<>>
    ELSE IF Head(s) \in WordChars THEN <<Head(s)>> \o ReSubNonWord(Tail(s))
    ELSE <<" ">> \o ReSubNonWord(DropNonWord(s))

RECURSIVE LStrip(_)
LStrip(s) ==
    IF s # <<>> /\ Head(s) = " " THEN LStrip(Tail(s)) ELSE s

RECURSIVE RStrip(_)
RStrip(s) ==
    IF s # <<>> /\ s[Len(s)] = " " THEN RStrip(SubSeq(s, 1, Len(s) - 1)) ELSE s

Strip(s) == RStrip(LStrip(s))

clean_hebrew_address(address_string) ==
    IF address_string = NoneStr THEN <<>>
    ELSE Strip(ReSubNonWord(address_string))

-----------------------------------------------------------------------------
(* Bounds of the model *)

\* How many entries of AddressPool are passed to fetch_geocode_data.
NumAddresses == 6
\* Cap on the recorded invocations of the wrapped function per argument tuple.
MaxInvocations == 2

AddressPool ==
    << <<"a">>, <<"v", "-", "a">>, <<"b">>, <<"b", ".">>, <<"v", " ", "b">>,
       <<"-", "a", "-">>, <<"c">>, <<"c", "-", "1">> >>
Addresses ==
    {AddressPool[i] : i \in 1..(IF NumAddresses < Len(AddressPool)
                                THEN NumAddresses ELSE Len(AddressPool))}

\* Values of the GEOFETCHER_CACHE_ONLY environment variable ("" = unset).
CacheOnlyEnvValues == {"", "1", "True", "YES", "0"}
\* Values of GEOCODING_API_KEY; googlemaps.Client rejects "bad".
ApiKeyEnvValues == {"k1", "bad"}

\* What one call of the external service gmaps.geocode can do.
ServiceRaises == [kind |-> "raise"]
Candidate(lat, lng) == [geometry |-> [location |-> [lat |-> lat, lng |-> lng]]]
ServiceOutcomes ==
    {ServiceRaises, List(<<>>), List(<<Candidate(31, 34), Candidate(33, 36)>>)}
NotCalled == [kind |-> "NotCalled"]

-----------------------------------------------------------------------------
(* utils/locally_memoize.py *)

\* hashlib.sha256(pickle.dumps((args, kwargs))).hexdigest(): one digest per
\* distinct (args, kwargs) pair.
args_hash(args, kwargs) == <<"sha256", args, kwargs>>

Raised(error) == [kind |-> "raise", error |-> error]

\* Mutant of _inner_func: the result is returned but never written.
_inner_func_never_stores(cache_folder, is_cache_only, args, kwargs, func_outcome) ==
    LET cache_file == args_hash(args, kwargs) IN
    IF cache_folder[cache_file] # NoFile
    THEN [result |-> cache_folder[cache_file], cache |-> cache_folder,
          invoked |-> FALSE, hit |-> TRUE]
    ELSE IF is_cache_only
    THEN [result |-> Raised("ValueError"), cache |-> cache_folder,
          invoked |-> FALSE, hit |-> FALSE]
    ELSE [result |-> func_outcome, cache |-> cache_folder,
          invoked |-> TRUE, hit |-> FALSE]

\* Mutant of _inner_func: a miss is computed even in cache-only mode.
_inner_func_ignores_cache_only(cache_folder, is_cache_only, args, kwargs, func_outcome) ==
    LET cache_file == args_hash(args, kwargs) IN
    IF cache_folder[cache_file] # NoFile
    THEN [result |-> cache_folder[cache_file], cache |-> cache_folder,
          invoked |-> FALSE, hit |-> TRUE]
    ELSE IF func_outcome.kind = "raise"
    THEN [result |-> func_outcome, cache |-> cache_folder,
          invoked |-> TRUE, hit |-> FALSE]
    ELSE [result |-> func_outcome,
          cache |-> [cache_folder EXCEPT ![cache_file] = func_outcome],
          invoked |-> TRUE, hit |-> FALSE]

\* One call of the wrapper returned by _lazily_run_function.  func_outcome is
\* what func(*args, **kwargs) does if it is run: a value, or ServiceRaises-like
\* [kind |-> "raise"].  The answer records the returned value or raised error,
\* the cache folder afterwards and whether func was run.
_inner_func(cache_folder, is_cache_only, args, kwargs, func_outcome) ==
    LET cache_file == args_hash(args, kwargs) IN
    IF cache_folder[cache_file] # NoFile
    THEN [result |-> cache_folder[cache_file], cache |-> cache_folder,
          invoked |-> FALSE, hit |-> TRUE]
    ELSE IF is_cache_only
    THEN [result |-> Raised("ValueError"), cache |-> cache_folder,
          invoked |-> FALSE, hit |-> FALSE]
    ELSE IF func_outcome.kind = "raise"
    THEN [result |-> func_outcome, cache |-> cache_folder,
          invoked |-> TRUE, hit |-> FALSE]
    ELSE [result |-> func_outcome,
          cache |-> [cache_folder EXCEPT ![cache_file] = func_outcome],
          invoked |-> TRUE, hit |-> FALSE]

-----------------------------------------------------------------------------
(* data/geodata_fetcher.py *)

_VILLAGE == <<"v">>

\* The rows of known_addresses_geolocations.csv: lat, lng, address.
KnownAddressesCsv == {[lat |-> 32, lng |-> 35, address |-> <<"a", ".">>]}

_load_known_addresses_geolocations ==
    {[address |-> clean_hebrew_address(row.address), lat |-> row.lat, lng |-> row.lng] :
        row \in KnownAddressesCsv}

_KNOWN_ADDRESSES_GEOLOCATIONS == _load_known_addresses_geolocations

Lower(s) ==
    CASE s = "True" -> "true"
      [] s = "YES" -> "yes"
      [] OTHER -> s

\* Mutant of _CACHE_ONLY_MODE: the value is compared without .lower().
_CACHE_ONLY_MODE_case_sensitive(environ) ==
    environ.GEOFETCHER_CACHE_ONLY \in {"1", "true", "yes"}

_CACHE_ONLY_MODE(environ) ==
    Lower(environ.GEOFETCHER_CACHE_ONLY) \in {"1", "true", "yes"}

\* googlemaps.Client(key) raises ValueError on an invalid key.
ClientAccepts(key) == key # "bad"

\* Mutant of _geocode_address: no try/except around the service call.
_geocode_address_propagates(address, key, service) ==
    IF ~ClientAccepts(key) THEN Raised("ValueError")
    ELSE IF service.kind = "raise" THEN Raised("ServiceError")
    ELSE service

\* The body of _geocode_address, given what gmaps.geocode does.
_geocode_address(address, key, service) ==
    IF ~ClientAccepts(key) THEN Raised("ValueError")
    ELSE IF service.kind = "raise" THEN None
    ELSE service

\* Mutant of known_addresses: the prefixed duplicates are not registered.
known_addresses_without_prefixes(duplicate_known_addresses_with_prefixes) ==
    _KNOWN_ADDRESSES_GEOLOCATIONS

\* GeoDataFetcher.__init__: the known addresses, and each again under every prefix.
known_addresses(duplicate_known_addresses_with_prefixes) ==
    _KNOWN_ADDRESSES_GEOLOCATIONS \cup
    {[address |-> prefix \o <<" ">> \o row.address, lat |-> row.lat, lng |-> row.lng] :
        prefix \in duplicate_known_addresses_with_prefixes,
        row \in _KNOWN_ADDRESSES_GEOLOCATIONS}

\* The fetcher the pipeline builds (preprocessing.py:217).
FetcherKnownAddresses == known_addresses({_VILLAGE})

InIndex(table, address) == \E row \in table : row.address = address
Loc(table, address) == CHOOSE row \in table : row.address = address

\* Python truthiness of what the memoized lookup returned.
Truthy(results) == results.kind = "list" /\ results.items # <<>>

\* GeoDataFetcher.fetch_geocode_data, given the cache folder, the process
\* environment and what the external service does if it is called.
fetch_geocode_data(cache_folder, environ, raw_address, service) ==
    LET address == clean_hebrew_address(raw_address)
        key == environ.GEOCODING_API_KEY
    IN  IF InIndex(FetcherKnownAddresses, address)
        THEN [value |-> GeoDataResults(Loc(FetcherKnownAddresses, address).lng,
                                       Loc(FetcherKnownAddresses, address).lat),
              cache |-> cache_folder, memo |-> NotCalled, memo_args |-> <<>>,
              invoked |-> FALSE, hit |-> FALSE]
        ELSE LET m == _inner_func(cache_folder, _CACHE_ONLY_MODE(environ),
                                  <<address, key>>, <<>>,
                                  _geocode_address(address, key, service))
                 results == m.result
             IN  [value |-> IF results.kind = "raise" THEN results
                            ELSE IF Truthy(results)
                            THEN GeoDataResults(
                                    results.items[1].geometry.location.lng,
                                    results.items[1].geometry.location.lat)
                            ELSE None,
                  cache |-> m.cache, memo |-> results, memo_args |-> <<address, key>>,
                  invoked |-> m.invoked, hit |-> m.hit]

\* Argument tuples the memoized _geocode_address can be called with.
ArgTuples ==
    {<<clean_hebrew_address(a), k>> : a \in Addresses, k \in ApiKeyEnvValues}
Digests == {args_hash(t, <<>>) : t \in ArgTuples}

Environments ==
    [GEOFETCHER_CACHE_ONLY : CacheOnlyEnvValues, GEOCODING_API_KEY : ApiKeyEnvValues]

NoCall == [op |-> "none"]

MemoInit ==
    /\ cache = [d \in Digests |-> NoFile]
    /\ env \in Environments
    /\ func_calls = [t \in ArgTuples |-> 0]
    /\ last = NoCall

\* A new process starts on the same cache folder with its own environment.
ProcessStart ==
    /\ env' \in Environments
    /\ last' = NoCall
    /\ UNCHANGED <<cache, func_calls>>

\* One call of fetch_geocode_data on a constructed GeoDataFetcher
\* (__init__ raises on a key the client rejects).
FetchGeocodeData ==
    \E a \in Addresses, service \in ServiceOutcomes :
        LET r == fetch_geocode_data(cache, env, a, service) IN
        /\ ClientAccepts(env.GEOCODING_API_KEY)
        /\ r.invoked => func_calls[r.memo_args] < MaxInvocations
        /\ cache' = r.cache
        /\ func_calls' = IF r.invoked
                         THEN [func_calls EXCEPT ![r.memo_args] = @ + 1]
                         ELSE func_calls
        /\ last' = [op |-> "fetch_geocode_data", address |-> a,
                    value |-> r.value, memo |-> r.memo, memo_args |-> r.memo_args,
                    invoked |-> r.invoked, hit |-> r.hit,
                    service |-> IF r.invoked THEN service ELSE NotCalled]
        /\ UNCHANGED env

-----------------------------------------------------------------------------
(* data/data.py: TypeAwareDataFrame and its two subclasses *)

BallotsMetadata_dataframe_dtypes ==
    [ballot_id |-> "string", locality_id |-> "string", locality_name |-> "string",
     location_name |-> "string", address |-> "string"]

BallotsVotes_dataframe_dtypes ==
    [ballot_id |-> "string", locality_id |-> "string", locality_name |-> "string",
     num_registered_voters |-> "int", num_voted |-> "int",
     num_disqualified |-> "int", num_approved |-> "int",
     parties_votes |-> "object"]

_dataframe_dtypes(class) ==
    IF class = "BallotsMetadata" THEN BallotsMetadata_dataframe_dtypes
    ELSE BallotsVotes_dataframe_dtypes

ValueError(what, detail) == [kind |-> "ValueError", what |-> what, detail |-> detail]
Constructed == [kind |-> "constructed"]
Pending == [kind |-> "pending"]

\* Mutant of __post_init__: undeclared columns are not looked for.
__post_init__accepts_extra_columns(dtypes, dataframe) ==
    LET missing_columns == DOMAIN dtypes \ DOMAIN dataframe
        type_errors == {col_name \in DOMAIN dtypes :
                           dataframe[col_name] # dtypes[col_name]}
    IN  IF missing_columns # {}
        THEN ValueError("missing", missing_columns)
        ELSE IF type_errors # {}
        THEN ValueError("type", type_errors)
        ELSE Constructed

\* TypeAwareDataFrame.__post_init__ on a table with the columns and dtypes
\* of dataframe, for the declared mapping dtypes.
__post_init__(dtypes, dataframe) ==
    LET missing_columns == DOMAIN dtypes \ DOMAIN dataframe
        unexpected_columns == DOMAIN dataframe \ DOMAIN dtypes
        type_errors == {col_name \in DOMAIN dtypes :
                           dataframe[col_name] # dtypes[col_name]}
    IN  IF missing_columns # {}
        THEN ValueError("missing", missing_columns)
        ELSE IF unexpected_columns # {}
        THEN ValueError("unexpected", unexpected_columns)
        ELSE IF type_errors # {}
        THEN ValueError("type", type_errors)
        ELSE Constructed

\* The tables tried: any subset of the declared columns and of ExtraColumns,
\* every column with any of Dtypes.
Dtypes == {"string", "int", "object"}
ExtraColumns == {"lat"}
RecordClasses == {"BallotsMetadata", "BallotsVotes"}
Tables(class) ==
    UNION {[columns -> Dtypes] :
              columns \in SUBSET (DOMAIN _dataframe_dtypes(class) \cup ExtraColumns)}

SchemaInit ==
    /\ record_class \in RecordClasses
    /\ df \in Tables(record_class)
    /\ construction = Pending

\* BallotsMetadata(df=...) or BallotsVotes(df=...).
Construct ==
    /\ construction = Pending
    /\ construction' = __post_init__(_dataframe_dtypes(record_class), df)
    /\ UNCHANGED <<record_class, df>>

-----------------------------------------------------------------------------
(* data/parsers.py: the party-code transliteration table *)

_HEBREW_TO_ENGLISH_TRASCRIBE ==
    [alef |-> "a", bet |-> "b", gimel |-> "g", dalet |-> "d", he |-> "h",
     vav |-> "v", zayin |-> "z", het |-> "H", tet |-> "t", yod |-> "i",
     kaf |-> "k", final_kaf |-> "k.", lamed |-> "l", mem |-> "m",
     final_mem |-> "m.", nun |-> "n", final_nun |-> "n.", samekh |-> "s",
     ayin |-> "A", pe |-> "p", final_pe |-> "p.", tsadi |-> "Z",
     final_tsadi |-> "Z.", qof |-> "K", resh |-> "r", shin |-> "S", tav |-> "T"]

\* len(d.values()): a dict's values view holds one entry per key.
LenValues(d) == Cardinality(DOMAIN d)
\* len(d)
LenDict(d) == Cardinality(DOMAIN d)

\* The assert statement under the table (parsers.py:148).
TranscribeAssertion(d) == LenValues(d) = LenDict(d)

\* Tables the assertion is tried on: the one in the source, and every table
\* over a small alphabet.
SmallChars == {"alef", "bet", "gimel", "dalet"}
SmallTokens == {"a", "b", "g"}
TranscribeTables == {_HEBREW_TO_ENGLISH_TRASCRIBE} \cup [SmallChars -> SmallTokens]

TranscribeInit ==
    /\ transcribe \in TranscribeTables
    /\ module_load = "pending"

\* Importing parsers.py evaluates the assertion.
LoadParsersModule ==
    /\ module_load = "pending"
    /\ module_load' = IF TranscribeAssertion(transcribe) THEN "loaded"
                       ELSE "AssertionError"
    /\ UNCHANGED transcribe

-----------------------------------------------------------------------------
(* data/parsers.py: the parser registries and the PDF metadata parser *)

_BALLOTS_VOTES_PARSER_REGISTRY == {"csv-windows", "csv-utf8", "excel"}
_BALLOTS_METADATA_PARSER_REGISTRY == {"excel", "pdf"}

Parser(protocol, format_name) ==
    [kind |-> "parser", protocol |-> protocol, format_name |-> format_name]

get_ballots_votes_parser(format_name) ==
    IF format_name \notin _BALLOTS_VOTES_PARSER_REGISTRY
    THEN ValueError("Unknown format", format_name)
    ELSE Parser("BallotsVotesParser", format_name)

get_ballots_metadata_parser(format_name) ==
    IF format_name \notin _BALLOTS_METADATA_PARSER_REGISTRY
    THEN ValueError("Unknown format", format_name)
    ELSE Parser("BallotsMetadataParser", format_name)

\* BallotsMetadataPDFParser.parse(path), given the set of sources that have
\* a sibling path.name + '.xlsx' and whether that file holds the expected
\* table.  The parser reads; it creates no file.
BallotsMetadataPDFParser_parse(path, converted_files, table_ok) ==
    IF path \notin converted_files
    THEN ValueError("PDFParser expects to find an Excel format file", path)
    ELSE IF ~table_ok
    THEN [kind |-> "KeyError", what |-> "columns", detail |-> path]
    ELSE [kind |-> "BallotsMetadata", what |-> "parsed", detail |-> path]

\* ---- bounds of the parser model
NumPdfSources == 3
MaxParses == 2

PdfSourcePool == <<"knesset-19.pdf", "knesset-18.pdf", "test_file.pdf", "other.pdf">>
PdfSources ==
    {PdfSourcePool[i] : i \in 1..(IF NumPdfSources < Len(PdfSourcePool)
                                  THEN NumPdfSources ELSE Len(PdfSourcePool))}

NoParse == [op |-> "none"]

ParsersInit ==
    /\ converted = {}
    /\ parse_count = [path \in PdfSources |-> 0]
    /\ parse_result = NoParse

\* The operator exports a PDF to Excel with Acrobat Reader ('Export As'), as
\* the parser's error message asks.
ExportAsExcel ==
    \E path \in PdfSources \ converted :
        /\ converted' = converted \cup {path}
        /\ parse_result' = NoParse
        /\ UNCHANGED parse_count

\* The sibling file is deleted again.
DeleteSibling ==
    \E path \in converted :
        /\ converted' = converted \ {path}
        /\ parse_result' = NoParse
        /\ UNCHANGED parse_count

\* One call of BallotsMetadataPDFParser().parse(path).
ParsePdf ==
    \E path \in PdfSources, table_ok \in BOOLEAN :
        /\ parse_count[path] < MaxParses
        /\ parse_count' = [parse_count EXCEPT ![path] = @ + 1]
        /\ parse_result' =
              [op |-> "parse", path |-> path, table_ok |-> table_ok,
               sibling_before |-> path \in converted,
               returned |-> BallotsMetadataPDFParser_parse(path, converted, table_ok)]
        /\ UNCHANGED converted

-----------------------------------------------------------------------------
(* pipelines/preprocessing: preprocess() and preprocessing_main.main() *)

\* ---- bounds of the CLI model
NumCampaigns == 2

CampaignNamePool == <<"knesset-18", "knesset-19", "knesset-20", "knesset-21">>
CampaignIndexes ==
    1..(IF NumCampaigns < Len(CampaignNamePool)
        THEN NumCampaigns ELSE Len(CampaignNamePool))
CampaignNames == {CampaignNamePool[i] : i \in CampaignIndexes}

\* Format keys a configuration file may hold: "pdf" is a metadata format
\* only, "csv-utf8" a votes format only.
FormatKeys == {"pdf", "csv-utf8"}

\* PreprocessingConfig.from_yaml: the keys are stored as read, unvalidated.
Configs ==
    {[i \in CampaignIndexes |->
         [name |-> CampaignNamePool[i],
          ballots_metadata_format |-> formats[i][1],
          ballots_votes_format |-> formats[i][2]]] :
     formats \in [CampaignIndexes -> FormatKeys \X FormatKeys]}

NoFlag == "None"
Flags ==
    [override : BOOLEAN,
     single_campaign : {NoFlag, CampaignNamePool[1], "knesset-99"}]

\* A file of the output folder: absent, left by an earlier run, or written
\* by this run.
FileStates == {"absent", "old", "new"}

Running == [kind |-> "running"]
Exit(code) == [kind |-> "exit", code |-> code]
NoCampaign == [name |-> "None"]

\* Mutant of load_raw_campaign_data: the votes file is loaded before the
\* metadata file.
load_raw_campaign_data_votes_first(campaign, metadata_ok, votes_ok) ==
    LET metadata_parser == get_ballots_metadata_parser(campaign.ballots_metadata_format)
        votes_parser == get_ballots_votes_parser(campaign.ballots_votes_format)
        metadata_file == <<campaign.name, "ballots_metadata">>
        votes_file == <<campaign.name, "ballots_votes">>
    IN  IF votes_parser.kind = "ValueError"
        THEN [outcome |-> votes_parser, parsed |-> {}]
        ELSE IF ~votes_ok
        THEN [outcome |-> ValueError("parse", votes_file), parsed |-> {votes_file}]
        ELSE IF metadata_parser.kind = "ValueError"
        THEN [outcome |-> metadata_parser, parsed |-> {votes_file}]
        ELSE IF ~metadata_ok
        THEN [outcome |-> ValueError("parse", metadata_file),
              parsed |-> {metadata_file, votes_file}]
        ELSE [outcome |-> [kind |-> "RawCampaignData"],
              parsed |-> {metadata_file, votes_file}]

\* load_raw_campaign_data(config): the outcome and the source files handed
\* to a parser, given whether each parse() call succeeds on its file.
load_raw_campaign_data(campaign, metadata_ok, votes_ok) ==
    LET metadata_parser == get_ballots_metadata_parser(campaign.ballots_metadata_format)
        votes_parser == get_ballots_votes_parser(campaign.ballots_votes_format)
        metadata_file == <<campaign.name, "ballots_metadata">>
        votes_file == <<campaign.name, "ballots_votes">>
    IN  IF metadata_parser.kind = "ValueError"
        THEN [outcome |-> metadata_parser, parsed |-> {}]
        ELSE IF ~metadata_ok
        THEN [outcome |-> ValueError("parse", metadata_file), parsed |-> {metadata_file}]
        ELSE IF votes_parser.kind = "ValueError"
        THEN [outcome |-> votes_parser, parsed |-> {metadata_file}]
        ELSE IF ~votes_ok
        THEN [outcome |-> ValueError("parse", votes_file),
              parsed |-> {metadata_file, votes_file}]
        ELSE [outcome |-> [kind |-> "RawCampaignData"],
              parsed |-> {metadata_file, votes_file}]

\* Mutant of single_campaign_filter: an unknown name falls back to the whole
\* configuration.
single_campaign_filter_unknown_runs_all(campaigns, single_campaign) ==
    IF single_campaign = NoFlag
       \/ \A i \in DOMAIN campaigns : campaigns[i].name # single_campaign
    THEN [kind |-> "campaigns", campaigns |-> campaigns]
    ELSE [kind |-> "campaigns",
          campaigns |-> <<campaigns[CHOOSE i \in DOMAIN campaigns :
                                       campaigns[i].name = single_campaign]>>]

\* main(): the single_campaign filter applied to the loaded configuration.
\* The answer is the campaign list to preprocess, or the exit status.
single_campaign_filter(campaigns, single_campaign) ==
    IF single_campaign = NoFlag
    THEN [kind |-> "campaigns", campaigns |-> campaigns]
    ELSE IF \A i \in DOMAIN campaigns : campaigns[i].name # single_campaign
    THEN Exit(1)
    ELSE [kind |-> "campaigns",
          campaigns |-> <<campaigns[CHOOSE i \in DOMAIN campaigns :
                                       campaigns[i].name = single_campaign]>>]

\* Mutant of existing_files_policy: the campaign is skipped only when both
\* of its files exist.
existing_files_policy_skips_when_both_exist(files, override) ==
    IF files.data # "absent" /\ files.metadata # "absent"
    THEN IF override
         THEN [then |-> "write", files |-> [metadata |-> "absent", data |-> "absent"]]
         ELSE [then |-> "skip", files |-> files]
    ELSE [then |-> "write", files |-> files]

\* main(): what the loop body does with the files of a yielded campaign
\* before it writes: "write", "skip", or the error of an unlink() call,
\* together with the files as those calls leave them.
existing_files_policy(files, override) ==
    IF files.data # "absent" \/ files.metadata # "absent"
    THEN IF override
         THEN IF files.data = "absent"
              THEN [then |-> "FileNotFoundError", files |-> files]
              ELSE IF files.metadata = "absent"
              THEN [then |-> "FileNotFoundError",
                    files |-> [files EXCEPT !.data = "absent"]]
              ELSE [then |-> "write",
                    files |-> [metadata |-> "absent", data |-> "absent"]]
         ELSE [then |-> "skip", files |-> files]
    ELSE [then |-> "write", files |-> files]

\* Mutant of preprocess_next: the campaigns are taken from the end of the
\* list.
preprocess_next_from_the_end(campaigns) ==
    [campaign_config |-> campaigns[Len(campaigns)],
     rest |-> SubSeq(campaigns, 1, Len(campaigns) - 1)]

\* preprocess(): `for campaign_config in config.campaigns` binds the next
\* campaign of the list, in list order.
preprocess_next(campaigns) ==
    [campaign_config |-> Head(campaigns), rest |-> Tail(campaigns)]

CLIInit ==
    /\ config \in Configs
    /\ flags \in Flags
    /\ out_files \in [CampaignNames -> [metadata : {"absent", "old"},
                                         data : {"absent", "old"}]]
    /\ pc = "main"
    /\ todo = <<>>
    /\ current = NoCampaign
    /\ parsed = {}
    /\ reported = {}
    /\ yields = <<>>
    /\ exit_status = Running

Crash(error) ==
    /\ pc' = "exited"
    /\ exit_status' = error

\* main() up to the call of preprocess(): output folder, configuration,
\* single-campaign filter.  preprocess() is a generator: nothing of it runs
\* before the for loop asks for the first pair.
MainStart ==
    /\ pc = "main"
    /\ LET filtered == single_campaign_filter(config, flags.single_campaign) IN
       IF filtered.kind = "exit"
       THEN /\ Crash(filtered)
            /\ UNCHANGED todo
       ELSE /\ todo' = filtered.campaigns
            /\ pc' = "generator"
            /\ UNCHANGED exit_status
    /\ UNCHANGED <<config, flags, out_files, current, parsed, reported, yields>>

\* The for loop of main() asks the generator for its next pair and the
\* generator loads the next campaign's raw data.
LoadCampaign ==
    /\ pc = "generator"
    /\ todo # <<>>
    /\ \E metadata_ok \in BOOLEAN, votes_ok \in BOOLEAN :
          LET loaded == load_raw_campaign_data(preprocess_next(todo).campaign_config,
                                               metadata_ok, votes_ok) IN
          /\ parsed' = parsed \cup loaded.parsed
          /\ IF loaded.outcome.kind = "RawCampaignData"
             THEN pc' = "enrich" /\ UNCHANGED exit_status
             ELSE Crash(loaded.outcome)
    /\ current' = preprocess_next(todo).campaign_config
    /\ todo' = preprocess_next(todo).rest
    /\ UNCHANGED <<config, flags, out_files, reported, yields>>

\* The generator is exhausted: the for loop ends and main() returns.
MainReturns ==
    /\ pc = "generator"
    /\ todo = <<>>
    /\ Crash(Exit(0))
    /\ UNCHANGED <<config, flags, out_files, todo, current, parsed, reported, yields>>

\* preprocess(): reconciliation, enrichment and the three-tier join of the
\* loaded campaign, up to the yield.  The enrichment raises when a locality
\* cannot be geocoded.
EnrichAndJoin ==
    /\ pc = "enrich"
    /\ \E enriched \in BOOLEAN :
          IF enriched
          THEN /\ pc' = "yielded"
               /\ yields' = Append(yields, current.name)
               /\ UNCHANGED exit_status
          ELSE Crash(ValueError("locality geocoding", current.name)) /\ UNCHANGED yields
    /\ UNCHANGED <<config, flags, out_files, todo, current, parsed, reported>>

\* main(): the existing-files check on the yielded pair.
CheckExistingFiles ==
    /\ pc = "yielded"
    /\ LET policy == existing_files_policy(out_files[current.name], flags.override) IN
       /\ out_files' = [out_files EXCEPT ![current.name] = policy.files]
       /\ CASE policy.then = "write" -> pc' = "dump" /\ UNCHANGED exit_status
            [] policy.then = "skip" -> pc' = "generator" /\ UNCHANGED exit_status
            [] OTHER -> Crash([kind |-> policy.then, what |-> "unlink",
                               detail |-> current.name])
    /\ UNCHANGED <<config, flags, todo, current, parsed, reported, yields>>

\* main(): dump the metadata as YAML, then the dataframe as Parquet; the
\* metadata file is closed before to_parquet runs, and an error of
\* to_parquet ends the run with the metadata file in place.
DumpFiles ==
    /\ pc = "dump"
    /\ \E to_parquet_ok \in BOOLEAN :
          IF to_parquet_ok
          THEN /\ out_files' = [out_files EXCEPT ![current.name] =
                                   [metadata |-> "new", data |-> "new"]]
               /\ pc' = "report"
               /\ UNCHANGED exit_status
          ELSE /\ out_files' = [out_files EXCEPT ![current.name].metadata = "new"]
               /\ Crash([kind |-> "to_parquet error", what |-> "dump",
                         detail |-> current.name])
    /\ UNCHANGED <<config, flags, todo, current, parsed, reported, yields>>

\* main(): analyze the campaign data and print the report.
PrintReport ==
    /\ pc = "report"
    /\ reported' = reported \cup {current.name}
    /\ pc' = "generator"
    /\ UNCHANGED <<config, flags, out_files, todo, current, parsed, yields, exit_status>>

-----------------------------------------------------------------------------
(* Applications of the pure functions *)

NoCallYet == [op |-> "None"]

\* ---- data_utils.clean_hebrew_address
\* Longest address string passed to clean_hebrew_address.
MaxAddressLen == 4
AddressChars == {"a", "1", " ", "-"}
RECURSIVE Strings(_, _)
Strings(chars, n) ==
    IF n = 0 THEN {<<>>}
    ELSE LET shorter == Strings(chars, n - 1) IN
         shorter \cup {<<c>> \o s : c \in chars, s \in {t \in shorter : Len(t) = n - 1}}
AddressStrings == Strings(AddressChars, MaxAddressLen) \cup {NoneStr}

CleanHebrewAddress ==
    /\ call = NoCallYet
    /\ \E address_string \in AddressStrings :
          /\ call' = [op |-> "clean_hebrew_address", address_string |-> address_string]
          /\ returned' = clean_hebrew_address(address_string)

\* ---- plot_utils.generate_tooltip_html_for_per_location_row
\* Largest vote count of one party in a per-location row.
MaxVotes == 2
Parties == {"a", "b", "c"}
\* A parties_votes dict: its items in insertion order, at most two of them.
VotesDicts ==
    {<<>>}
    \cup {<< <<p, v>> >> : p \in Parties, v \in 0..MaxVotes}
    \cup {d \in {<< <<p, v>>, <<q, w>> >> :
                    p \in Parties, q \in Parties, v \in 0..MaxVotes, w \in 0..MaxVotes} :
            d[1][1] # d[2][1]}
\* The counts are Python ints or numpy integers, depending on how the row
\* was loaded.
NumberTypes == {"int", "numpy.int64"}
NoneNum == [kind |-> "None"]
\* top_pct_coverage, in tenths.
TopPctCoverages == {NoneNum, [kind |-> "tenths", tenths |-> 9]}
LimitNumParties == {NoneNum, [kind |-> "int", value |-> 1]}

RECURSIVE SumCounts(_)
SumCounts(items) ==
    IF items = <<>> THEN 0 ELSE Head(items)[2] + SumCounts(Tail(items))

\* sorted(items, key=count, reverse=True): stable, the largest count first.
RECURSIVE InsertByCount(_, _)
InsertByCount(item, sorted_items) ==
    IF sorted_items = <<>> THEN <<item>>
    ELSE IF item[2] >= Head(sorted_items)[2] THEN <<item>> \o sorted_items
    ELSE <<Head(sorted_items)>> \o InsertByCount(item, Tail(sorted_items))
RECURSIVE SortedByCount(_)
SortedByCount(items) ==
    IF items = <<>> THEN <<>>
    ELSE InsertByCount(Head(items), SortedByCount(Tail(items)))

\* np.where(np.cumsum(fractions) > top_pct_coverage)[0]: the indexes (from
\* 0) at which the running sum of the fractions count / total_votes exceeds
\* the coverage.
CoverageIndexes(items, total_votes, tenths) ==
    {i \in 0..(Len(items) - 1) :
        10 * SumCounts(SubSeq(items, 1, i + 1)) > tenths * total_votes}
Minimum(S) == CHOOSE x \in S : \A y \in S : x <= y
Html(parties_data) == [kind |-> "html", parties_data |-> parties_data]

generate_tooltip_html_for_per_location_row(parties_votes, number_type, limit_num_parties, top_pct_coverage, remove_zero_votes) ==
    LET total_votes == SumCounts(parties_votes) IN
    IF total_votes = 0 /\ parties_votes # <<>> /\ number_type = "int"
    THEN Raised("ZeroDivisionError")
    ELSE IF total_votes = 0 /\ parties_votes # <<>>
    THEN \* numpy: every fraction is nan, which is truthy and exceeds nothing.
         IF top_pct_coverage.kind # "None"
         THEN Raised("IndexError")
         ELSE Html(SubSeq(parties_votes, 1,
                          IF limit_num_parties.kind = "None" THEN Len(parties_votes)
                          ELSE Minimum({limit_num_parties.value, Len(parties_votes)})))
    ELSE LET sorted_normed_votes ==
                 IF remove_zero_votes
                 THEN SelectSeq(SortedByCount(parties_votes), LAMBDA x : x[2] # 0)
                 ELSE SortedByCount(parties_votes)
             first_limit ==
                 IF limit_num_parties.kind = "None" THEN Len(sorted_normed_votes)
                 ELSE limit_num_parties.value
             covered ==
                 IF top_pct_coverage.kind = "None" THEN {}
                 ELSE CoverageIndexes(sorted_normed_votes, total_votes,
                                      top_pct_coverage.tenths)
         IN  IF top_pct_coverage.kind # "None" /\ covered = {}
             THEN Raised("IndexError")
             ELSE LET second_limit ==
                          IF top_pct_coverage.kind = "None" THEN Len(sorted_normed_votes)
                          ELSE Minimum(covered) + 1
                  IN  Html(SubSeq(sorted_normed_votes, 1,
                                  Minimum({first_limit, second_limit})))

GenerateTooltip ==
    /\ call = NoCallYet
    /\ \E parties_votes \in VotesDicts, number_type \in NumberTypes,
       limit_num_parties \in LimitNumParties, top_pct_coverage \in TopPctCoverages,
       remove_zero_votes \in BOOLEAN :
        /\ call' = [op |-> "generate_tooltip_html_for_per_location_row",
                    parties_votes |-> parties_votes,
                    number_type |-> number_type,
                    limit_num_parties |-> limit_num_parties,
                    top_pct_coverage |-> top_pct_coverage,
                    remove_zero_votes |-> remove_zero_votes]
        /\ returned' = generate_tooltip_html_for_per_location_row(
                           parties_votes, number_type, limit_num_parties,
                           top_pct_coverage, remove_zero_votes)

\* ---- data_utils.aggregate_parties_votes
\* Longest sequence of dicts passed to aggregate_parties_votes.
MaxDicts == 2
\* The order of the party names as Python compares strings.
PartyRank == [a |-> 1, b |-> 2, c |-> 3]
RECURSIVE SeqsUpTo(_, _)
SeqsUpTo(S, n) ==
    IF n = 0 THEN {<<>>}
    ELSE LET shorter == SeqsUpTo(S, n - 1) IN
         shorter \cup {<<x>> \o s : x \in S, s \in {t \in shorter : Len(t) = n - 1}}
\* The dicts passed to it: those with fewer than MaxVotes votes in all.
AggregatedDicts == {d \in VotesDicts : SumCounts(d) < MaxVotes}
PartiesVotesSeqs == SeqsUpTo(AggregatedDicts, MaxDicts)

\* it.chain(i for d in parties_votes for i in d.items())
RECURSIVE ChainItems(_)
ChainItems(parties_votes) ==
    IF parties_votes = <<>> THEN <<>>
    ELSE Head(parties_votes) \o ChainItems(Tail(parties_votes))

\* sorted(items, key=lambda x: x[0]): stable, by party name.
RECURSIVE InsertByKey(_, _)
InsertByKey(item, sorted_items) ==
    IF sorted_items = <<>> THEN <<item>>
    ELSE IF PartyRank[item[1]] < PartyRank[Head(sorted_items)[1]]
    THEN <<item>> \o sorted_items
    ELSE <<Head(sorted_items)>> \o InsertByKey(item, Tail(sorted_items))
RECURSIVE SortedByKey(_)
SortedByKey(items) ==
    IF items = <<>> THEN <<>>
    ELSE InsertByKey(items[Len(items)], SortedByKey(SubSeq(items, 1, Len(items) - 1)))

\* it.groupby(items, key=lambda x: x[0]) with the sum of each group: one
\* pair per maximal run of consecutive items with the same party.
RECURSIVE RunLength(_, _)
RunLength(items, key) ==
    IF items = <<>> \/ Head(items)[1] # key THEN 0
    ELSE 1 + RunLength(Tail(items), key)
RECURSIVE GroupBySum(_)
GroupBySum(items) ==
    IF items = <<>> THEN <<>>
    ELSE LET n == RunLength(items, Head(items)[1]) IN
         << <<Head(items)[1], SumCounts(SubSeq(items, 1, n))>> >>
             \o GroupBySum(SubSeq(items, n + 1, Len(items)))

\* dict(pairs): a later pair with the same key replaces an earlier one.
RECURSIVE Dict(_)
Dict(pairs) ==
    IF pairs = <<>> THEN [party \in {} |-> 0]
    ELSE LET front == Dict(SubSeq(pairs, 1, Len(pairs) - 1))
             last_pair == pairs[Len(pairs)]
         IN  [party \in DOMAIN front \cup {last_pair[1]} |->
                 IF party = last_pair[1] THEN last_pair[2] ELSE front[party]]

\* Mutant of aggregate_parties_votes: the items are grouped without being
\* sorted first.
aggregate_parties_votes_without_sort(parties_votes) ==
    Dict(GroupBySum(ChainItems(parties_votes)))

aggregate_parties_votes(parties_votes) ==
    Dict(GroupBySum(SortedByKey(ChainItems(parties_votes))))

AggregatePartiesVotes ==
    /\ call = NoCallYet
    /\ \E parties_votes \in PartiesVotesSeqs :
          /\ call' = [op |-> "aggregate_parties_votes", parties_votes |-> parties_votes]
          /\ returned' = aggregate_parties_votes(parties_votes)

\* ---- data_utils: the grid generators and group_points_by_polygons
\* Side of the square lattice of unit pixels a bounded polygon is made of.
GridExtent == 3
\* Largest grid_size.
MaxGridSize == 3
\* Largest grid_length, in half pixels.
MaxGridLengthHalves == 4

RECURSIVE Factorial(_)
Factorial(n) == IF n = 0 THEN 1 ELSE n * Factorial(n - 1)
\* Coordinates are integers in units of 1/Scale of a pixel side, so that
\* every np.linspace and np.arange point below is exact.
Scale == 2 * Factorial(MaxGridSize)

\* A polygon is the union of the closed unit pixels <<x, y>> it holds
\* (pixel <<x, y>> spans x..x+1 by y..y+1); polygons are the unions of two
\* rectangles of pixels.
RectanglePixels(x0, x1, y0, y1) == {<<x, y>> : x \in x0..(x1 - 1), y \in y0..(y1 - 1)}
Rectangles ==
    {RectanglePixels(x0, x1, y0, y1) :
        x0 \in 0..(GridExtent - 1), x1 \in 1..GridExtent,
        y0 \in 0..(GridExtent - 1), y1 \in 1..GridExtent} \ {{}}
Polygons == {r1 \cup r2 : r1 \in Rectangles, r2 \in Rectangles}

Maximum(S) == CHOOSE x \in S : \A y \in S : x >= y
\* polygon.bounds
PolygonBounds(polygon) ==
    [min_lng |-> Scale * Minimum({px[1] : px \in polygon}),
     min_lat |-> Scale * Minimum({px[2] : px \in polygon}),
     max_lng |-> Scale * (Maximum({px[1] : px \in polygon}) + 1),
     max_lat |-> Scale * (Maximum({px[2] : px \in polygon}) + 1)]

\* np.linspace(start, stop, num): num evenly spaced points, both ends
\* included.
linspace(start, stop, num) ==
    [i \in 1..num |-> start + ((i - 1) * (stop - start)) \div (num - 1)]
\* np.arange(start, stop, step): start, start + step, ... below stop;
\* ceil((stop - start) / step) points.
arange(start, stop, step) ==
    LET length == IF stop > start THEN (stop - start + step - 1) \div step ELSE 0 IN
    [i \in 1..length |-> start + (i - 1) * step]

\* shapely.geometry.box(minx, miny, maxx, maxy)
box(minx, miny, maxx, maxy) == [minx |-> minx, miny |-> miny, maxx |-> maxx, maxy |-> maxy]

\* The generator expression shared by both strategies: one box per pair of
\* consecutive lats and consecutive lngs, lats outermost.
GridCells(lats, lngs) ==
    LET rows == IF Len(lats) > 0 THEN Len(lats) - 1 ELSE 0
        cols == IF Len(lngs) > 0 THEN Len(lngs) - 1 ELSE 0
    IN  [k \in 1..(rows * cols) |->
            LET i == ((k - 1) \div cols) + 1
                j == ((k - 1) % cols) + 1
            IN  box(lngs[j], lats[i], lngs[j + 1], lats[i + 1])]

_generate_covering_polygons_grid_cells_by_grid_size(polygon, grid_size) ==
    LET b == PolygonBounds(polygon)
        lats == linspace(b.min_lat, b.max_lat, grid_size + 1)
        lngs == linspace(b.min_lng, b.max_lng, grid_size + 1)
    IN  GridCells(lats, lngs)

\* Mutant of the by-grid-length generator: np.arange stops at the maximum
\* itself.
by_grid_length_stops_at_the_maximum(polygon, grid_length) ==
    LET b == PolygonBounds(polygon)
        lats == arange(b.min_lat, b.max_lat, grid_length)
        lngs == arange(b.min_lng, b.max_lng, grid_length)
    IN  GridCells(lats, lngs)

_generate_covering_polygons_grid_cells_by_grid_length(polygon, grid_length) ==
    LET b == PolygonBounds(polygon)
        lats == arange(b.min_lat, b.max_lat + grid_length, grid_length)
        lngs == arange(b.min_lng, b.max_lng + grid_length, grid_length)
    IN  GridCells(lats, lngs)

\* cell.intersects(bounded_polygon): they share at least one point, a
\* boundary point included.
Intersects(cell, polygon) ==
    \E px \in polygon :
        /\ cell.minx <= Scale * (px[1] + 1) /\ Scale * px[1] <= cell.maxx
        /\ cell.miny <= Scale * (px[2] + 1) /\ Scale * px[2] <= cell.maxy

\* _generate_grid: the cells that intersect the polygon, each under the
\* index (from 0) it had in grid_polygons.
_generate_grid(bounded_polygon, grid_polygons) ==
    [id \in {k - 1 : k \in {k \in DOMAIN grid_polygons :
                                Intersects(grid_polygons[k], bounded_polygon)}} |->
        grid_polygons[id + 1]]

generate_grid_by_size(bounded_polygon, grid_size) ==
    _generate_grid(bounded_polygon,
        _generate_covering_polygons_grid_cells_by_grid_size(bounded_polygon, grid_size))
generate_grid_by_length(bounded_polygon, grid_length) ==
    _generate_grid(bounded_polygon,
        _generate_covering_polygons_grid_cells_by_grid_length(bounded_polygon, grid_length))

GridSizes == 1..MaxGridSize
GridLengths == {k * (Scale \div 2) : k \in 1..MaxGridLengthHalves}

GenerateGridBySize ==
    /\ call = NoCallYet
    /\ \E polygon \in Polygons, grid_size \in GridSizes :
          /\ call' = [op |-> "generate_grid_by_size", polygon |-> polygon,
                      grid_size |-> grid_size]
          /\ returned' =
                [cells |-> _generate_covering_polygons_grid_cells_by_grid_size(
                               polygon, grid_size),
                 grid |-> generate_grid_by_size(polygon, grid_size)]

GenerateGridByLength ==
    /\ call = NoCallYet
    /\ \E polygon \in Polygons, grid_length \in GridLengths :
          /\ call' = [op |-> "generate_grid_by_length", polygon |-> polygon,
                      grid_length |-> grid_length]
          /\ returned' =
                [cells |-> _generate_covering_polygons_grid_cells_by_grid_length(
                               polygon, grid_length),
                 grid |-> generate_grid_by_length(polygon, grid_length)]

\* How many entries of PointPool the points frame may hold.
NumPoints == 5
\* Points, in half pixels: inside a cell, on the line between two cells of
\* a 2 x 2 grid, on a corner of the polygon, far outside, and so on.
PointPool ==
    << <<2, 2>>, <<3, 3>>, <<0, 0>>, <<20, 20>>, <<5, 5>>, <<2, 3>>, <<4, 2>>, <<1, 5>> >>
PointIds ==
    1..(IF NumPoints < Len(PointPool) THEN NumPoints ELSE Len(PointPool))
PointAt(id) ==
    [x |-> PointPool[id][1] * (Scale \div 2), y |-> PointPool[id][2] * (Scale \div 2)]
\* The polygons the grids are generated over: the whole lattice, and two
\* narrow strips along its left and bottom sides.
GroupedPolygons ==
    {RectanglePixels(0, GridExtent, 0, GridExtent),
     RectanglePixels(0, 1, 0, GridExtent) \cup RectanglePixels(0, GridExtent, 0, 1)}

\* Mutant of contains: a point on the boundary of the cell counts as
\* contained (predicate='intersects').
contains_or_touches(cell, point) ==
    /\ cell.minx <= point.x /\ point.x <= cell.maxx
    /\ cell.miny <= point.y /\ point.y <= cell.maxy

\* predicate='contains': the point is in the interior of the cell.
contains(cell, point) ==
    /\ cell.minx < point.x /\ point.x < cell.maxx
    /\ cell.miny < point.y /\ point.y < cell.maxy

\* group_points_by_polygons(points, polygons): the inner spatial join of
\* the cells with the points, grouped by polygon_id.  points is the set of
\* the row labels of the points frame.
group_points_by_polygons(points, polygons) ==
    LET joined == {pair \in (DOMAIN polygons) \X points :
                      contains(polygons[pair[1]], PointAt(pair[2]))}
    IN  [polygon_id \in {pair[1] : pair \in joined} |->
            {pair[2] : pair \in {q \in joined : q[1] = polygon_id}}]

GroupPointsByPolygons ==
    /\ call = NoCallYet
    /\ \E polygon \in GroupedPolygons, points \in SUBSET PointIds,
          strategy \in ({"size"} \X GridSizes) \cup ({"length"} \X GridLengths) :
          LET polygons == IF strategy[1] = "size"
                          THEN generate_grid_by_size(polygon, strategy[2])
                          ELSE generate_grid_by_length(polygon, strategy[2])
          IN  /\ call' = [op |-> "group_points_by_polygons", points |-> points,
                          polygons |-> polygons]
              /\ returned' = group_points_by_polygons(points, polygons)

\* ---- preprocess(): the three-tier join of the votes with the metadata
\* Largest coordinate value the enrichment may have found for a ballot.
MaxCoordinate == 2
\* A ballot_id is <<station, sub-station>>, printed "station.sub".
BallotRow(locality_id, station, sub) ==
    [locality_id |-> locality_id, ballot_id |-> <<station, sub>>]
\* The rows either frame may hold, each identified by locality and ballot.
JoinRows ==
    {BallotRow(1, 5, 0), BallotRow(1, 5, 1), BallotRow(1, 6, 1),
     BallotRow(2, 5, 0), BallotRow(2, 5, 1)}
NaN == [kind |-> "NaN"]
\* A pair of lat and lng, each a fraction num / den.
Coordinate(lat_num, lng_num, den) ==
    [kind |-> "coordinate", lat |-> <<lat_num, den>>, lng |-> <<lng_num, den>>]
Absent == [kind |-> "absent"]
\* The enriched metadata frame: per row, no such row, a row whose lat and
\* lng are null, or a row with a coordinate.
MetadataFrames ==
    [JoinRows -> {Absent, NaN} \cup {Coordinate(v, v + 30, 1) : v \in 1..MaxCoordinate}]
\* The votes frame: every row, or only the sub-station rows.
VotesFrames == {JoinRows, {row \in JoinRows : row.ballot_id[2] # 0}}

\* _get_ballot_index: locality_id + '-' + ballot_id, with the sub-station
\* digits replaced by 0 when drop_subballot is set.
_get_ballot_index(row, drop_subballot) ==
    IF drop_subballot /\ row.ballot_id[2] # 0
    THEN [row EXCEPT !.ballot_id = <<row.ballot_id[1], 0>>]
    ELSE row

\* The lat / lng a left merge on the metadata index gives for a key.
MergedOnIndex(metadata_df, key) ==
    IF key \in DOMAIN metadata_df /\ metadata_df[key] # Absent
    THEN metadata_df[key] ELSE NaN

RECURSIVE SumOf(_, _)
SumOf(values, keys) ==
    IF keys = {} THEN 0
    ELSE LET key == CHOOSE k \in keys : TRUE IN values[key] + SumOf(values, keys \ {key})
\* metadata_df.groupby('locality_id').agg(np.mean)[['lat', 'lng']], looked
\* up by a left merge on locality_id: the mean skips the null values.
MergedOnLocalityMean(metadata_df, locality_id) ==
    LET known == {key \in DOMAIN metadata_df :
                     /\ key.locality_id = locality_id
                     /\ metadata_df[key].kind = "coordinate"}
    IN  IF known = {} THEN NaN
        ELSE Coordinate(SumOf([key \in known |-> metadata_df[key].lat[1]], known),
                        SumOf([key \in known |-> metadata_df[key].lng[1]], known),
                        Cardinality(known))

\* Mutant of preprocess_join: rows without an exact match go straight to
\* the locality mean.
preprocess_join_without_substation_tier(votes_df, metadata_df) ==
    LET exact == [row \in votes_df |->
                     MergedOnIndex(metadata_df, _get_ballot_index(row, FALSE))]
    IN  [row \in votes_df |->
            IF exact[row] = NaN
            THEN MergedOnLocalityMean(metadata_df, row.locality_id)
            ELSE exact[row]]

\* preprocess(): the lat / lng of every votes row after the three merges.
preprocess_join(votes_df, metadata_df) ==
    LET exact == [row \in votes_df |->
                     MergedOnIndex(metadata_df, _get_ballot_index(row, FALSE))]
        missing_idxs == {row \in votes_df : exact[row] = NaN}
        substation == [row \in votes_df |->
                          IF row \in missing_idxs
                          THEN MergedOnIndex(metadata_df, _get_ballot_index(row, TRUE))
                          ELSE exact[row]]
        still_missing_idxs == {row \in votes_df : substation[row] = NaN}
    IN  [row \in votes_df |->
            IF row \in still_missing_idxs
            THEN MergedOnLocalityMean(metadata_df, row.locality_id)
            ELSE substation[row]]

PreprocessJoin ==
    /\ call = NoCallYet
    /\ \E votes_df \in VotesFrames, metadata_df \in MetadataFrames :
          /\ call' = [op |-> "preprocess_join", votes_df |-> votes_df,
                      metadata_df |-> metadata_df]
          /\ returned' = preprocess_join(votes_df, metadata_df)

\* The metadata columns a matched row brings besides lat and lng: the
\* location name and address, which here name the metadata row.
LocationOf(key) == [kind |-> "location", of |-> key]
\* One row of a left merge on the metadata index: the coordinate and the
\* other metadata columns of the matched row, all null without a match.
MergedRowOnIndex(metadata_df, key) ==
    IF key \in DOMAIN metadata_df /\ metadata_df[key] # Absent
    THEN [lat_lng |-> metadata_df[key], location |-> LocationOf(key)]
    ELSE [lat_lng |-> NaN, location |-> NaN]
\* One row of the left merge on the locality means, which has the lat and
\* lng columns only; the assignment nulls the columns the merge lacks.
MergedRowOnLocalityMean(metadata_df, locality_id) ==
    [lat_lng |-> MergedOnLocalityMean(metadata_df, locality_id), location |-> NaN]

\* df[df['lat'].isnull() | df['lng'].isnull()].index
missing_idxs(merged) == {row \in DOMAIN merged : merged[row].lat_lng = NaN}

\* Mutant of preprocess_tiers: the second and third merges are assigned to
\* the whole frame.
preprocess_tiers_rewrite_every_row(votes_df, metadata_df) ==
    LET exact == [row \in votes_df |->
                     MergedRowOnIndex(metadata_df, _get_ballot_index(row, FALSE))]
        substation == [row \in votes_df |->
                          MergedRowOnIndex(metadata_df, _get_ballot_index(row, TRUE))]
        average == [row \in votes_df |->
                       MergedRowOnLocalityMean(metadata_df, row.locality_id)]
    IN  <<exact, substation, average>>

\* preprocess(): the merged frame df after each of the three merges, each
\* row with its coordinate and its other metadata columns.
preprocess_tiers(votes_df, metadata_df) ==
    LET exact == [row \in votes_df |->
                     MergedRowOnIndex(metadata_df, _get_ballot_index(row, FALSE))]
        substation == [row \in votes_df |->
                          IF row \in missing_idxs(exact)
                          THEN MergedRowOnIndex(metadata_df, _get_ballot_index(row, TRUE))
                          ELSE exact[row]]
        average == [row \in votes_df |->
                       IF row \in missing_idxs(substation)
                       THEN MergedRowOnLocalityMean(metadata_df, row.locality_id)
                       ELSE substation[row]]
    IN  <<exact, substation, average>>

PreprocessTiers ==
    /\ call = NoCallYet
    /\ \E votes_df \in VotesFrames, metadata_df \in MetadataFrames :
          /\ call' = [op |-> "preprocess_tiers", votes_df |-> votes_df,
                      metadata_df |-> metadata_df]
          /\ returned' = preprocess_tiers(votes_df, metadata_df)

\* ---- preprocessing._normalize_optional_addresses
\* Longest locality name, location name or address tried.
MaxNameLen == 2
NameChars == {"a", "b", "-"}
\* A name column's value: a string, or null (the columns a backfilled
\* metadata row lacks).
NameStrings == Strings(NameChars, MaxNameLen) \cup {NoneStr}
_ISRAEL == <<"I">>
CommaSpace == <<",", " ">>

\* Mutant of _normalize_optional_addresses: the address is compared with
\* the locality name before either is cleaned.
_normalize_optional_addresses_compares_raw(locality_name, location_name, address) ==
    LET locality == clean_hebrew_address(locality_name)
        location == clean_hebrew_address(location_name)
        cleaned == clean_hebrew_address(address)
    IN  IF address = locality_name
        THEN << _VILLAGE \o <<" ">> \o locality, locality >>
        ELSE << cleaned \o CommaSpace \o locality \o CommaSpace \o _ISRAEL,
                location \o CommaSpace \o locality \o CommaSpace \o _ISRAEL,
                location \o <<" ">> \o cleaned \o CommaSpace \o locality
                    \o CommaSpace \o _ISRAEL,
                locality >>

_normalize_optional_addresses(locality_name, location_name, address) ==
    LET locality == clean_hebrew_address(locality_name)
        location == clean_hebrew_address(location_name)
        cleaned == clean_hebrew_address(address)
    IN  IF cleaned = locality
        THEN << _VILLAGE \o <<" ">> \o locality, locality >>
        ELSE << cleaned \o CommaSpace \o locality \o CommaSpace \o _ISRAEL,
                location \o CommaSpace \o locality \o CommaSpace \o _ISRAEL,
                location \o <<" ">> \o cleaned \o CommaSpace \o locality
                    \o CommaSpace \o _ISRAEL,
                locality >>

NormalizeOptionalAddresses ==
    /\ call = NoCallYet
    /\ \E locality_name \in NameStrings, location_name \in NameStrings,
          address \in NameStrings :
          /\ call' = [op |-> "_normalize_optional_addresses",
                      locality_name |-> locality_name,
                      location_name |-> location_name, address |-> address]
          /\ returned' = _normalize_optional_addresses(locality_name, location_name, address)

\* ---- preprocessing._enrich_addresses_strategy
\* Longitudes and latitudes are whole numbers of hundredths of a degree,
\* the length preprocessing.py takes for one kilometre.
_KM_IN_DEGREES == 1
MAX_ALLOWED_DISTANCE_FROM_LOCALITY_CENTER_KM == 10
\* Most candidate addresses of one station.
MaxCandidates == 3
CandidateAddresses == {<<"a">>, <<"b">>}
CandidateLists ==
    {addresses \in SeqsUpTo(CandidateAddresses, MaxCandidates) : addresses # <<>>}
\* shapely.geometry.Point(longitude, latitude)
Point(longitude, latitude) == [x |-> longitude, y |-> latitude]
GeocodedPoints == {Point(6, 8), Point(0, -5), Point(12, 0), Point(3, 4)}
LocalityCenters == {Point(0, 0), Point(3, 0)}
\* An administrative polygon: a rectangle, given by two opposite corners.
Adm2Rectangle(lo, hi) == [kind |-> "Polygon", lo |-> lo, hi |-> hi]
LocalityPolygons == {None, Adm2Rectangle(Point(-1, -1), Point(9, 20))}
\* What fetch_geocode_data answers for each address: a result or None.
FetcherAnswers ==
    [CandidateAddresses ->
        {None} \cup {GeoDataResults(p.x, p.y) : p \in GeocodedPoints}]

\* polygon.contains(point): the point is in the interior.
polygon_contains(polygon, point) ==
    /\ polygon.lo.x < point.x /\ point.x < polygon.hi.x
    /\ polygon.lo.y < point.y /\ point.y < polygon.hi.y
\* The square of point.distance(other).
SquaredDistance(point, other) ==
    (point.x - other.x) * (point.x - other.x) + (point.y - other.y) * (point.y - other.y)

\* Mutant of is_valid: a point near the center is accepted although the
\* locality has a polygon that does not contain it.
is_valid_near_or_inside(geodata_point, locality_center, locality_polygon) ==
    \/ locality_polygon # None /\ polygon_contains(locality_polygon, geodata_point)
    \/ SquaredDistance(geodata_point, locality_center) <
          (MAX_ALLOWED_DISTANCE_FROM_LOCALITY_CENTER_KM * _KM_IN_DEGREES)
             * (MAX_ALLOWED_DISTANCE_FROM_LOCALITY_CENTER_KM * _KM_IN_DEGREES)

is_valid(geodata_point, locality_center, locality_polygon) ==
    IF locality_polygon # None
    THEN polygon_contains(locality_polygon, geodata_point)
    ELSE SquaredDistance(geodata_point, locality_center) <
            (MAX_ALLOWED_DISTANCE_FROM_LOCALITY_CENTER_KM * _KM_IN_DEGREES)
               * (MAX_ALLOWED_DISTANCE_FROM_LOCALITY_CENTER_KM * _KM_IN_DEGREES)

\* The loop over the candidates; fetched lists the addresses handed to
\* fetcher.fetch_geocode_data, in order.
RECURSIVE _enrich_addresses_strategy(_, _, _, _)
_enrich_addresses_strategy(addresses, locality_center, locality_polygon, fetcher) ==
    IF addresses = <<>> THEN [lat_lng |-> NaN, fetched |-> <<>>]
    ELSE LET address == Head(addresses)
             geodata == fetcher[address]
             next == _enrich_addresses_strategy(
                         Tail(addresses), locality_center, locality_polygon, fetcher)
         IN  IF geodata = None
             THEN [next EXCEPT !.fetched = <<address>> \o @]
             ELSE IF is_valid(Point(geodata.longitude, geodata.latitude),
                              locality_center, locality_polygon)
             THEN [lat_lng |-> [lat |-> geodata.latitude, lng |-> geodata.longitude],
                   fetched |-> <<address>>]
             ELSE [next EXCEPT !.fetched = <<address>> \o @]

EnrichAddressesStrategy ==
    /\ call = NoCallYet
    /\ \E addresses \in CandidateLists, locality_center \in LocalityCenters,
          locality_polygon \in LocalityPolygons, fetcher \in FetcherAnswers :
          /\ call' = [op |-> "_enrich_addresses_strategy", addresses |-> addresses,
                      locality_center |-> locality_center,
                      locality_polygon |-> locality_polygon, fetcher |-> fetcher]
          /\ returned' = _enrich_addresses_strategy(
                             addresses, locality_center, locality_polygon, fetcher)

\* ---- preprocessing._enrich_per_locality: the validation polygon
\* The administrative polygons the ISR_ADM2 file may hold.
Adm2Polygons ==
    {Adm2Rectangle(Point(-1, -1), Point(9, 20)), Adm2Rectangle(Point(2, -2), Point(5, 2)),
     Adm2Rectangle(Point(10, 10), Point(12, 12))}
LocalityNames == {<<"a">>, <<"b">>}
\* logging.warning of lines 193-195.
Warning(count, locality_name, locality_center) ==
    [found |-> count, locality_name |-> locality_name, locality_center |-> locality_center]

\* Mutant of locality_polygon: several matches, the first one is used.
locality_polygon_takes_a_match(locality_name, locality_center, isr_adm2) ==
    LET matched_polygons == {p \in isr_adm2 : polygon_contains(p, locality_center)}
    IN  IF matched_polygons = {}
        THEN [locality_polygon |-> None, warnings |-> <<>>]
        ELSE [locality_polygon |-> CHOOSE p \in matched_polygons : TRUE,
              warnings |-> <<>>]

\* Lines 188-198: the polygon handed to the address strategy and what is
\* logged on the way.
locality_polygon(locality_name, locality_center, isr_adm2) ==
    LET matched_polygons == {p \in isr_adm2 : polygon_contains(p, locality_center)}
    IN  IF matched_polygons = {}
        THEN [locality_polygon |-> None, warnings |-> <<>>]
        ELSE IF Cardinality(matched_polygons) > 1
        THEN [locality_polygon |-> None,
              warnings |-> <<Warning(Cardinality(matched_polygons),
                                     locality_name, locality_center)>>]
        ELSE [locality_polygon |-> CHOOSE p \in matched_polygons : TRUE,
              warnings |-> <<>>]

ChooseLocalityPolygon ==
    /\ call = NoCallYet
    /\ \E locality_name \in LocalityNames, locality_center \in LocalityCenters,
          isr_adm2 \in SUBSET Adm2Polygons :
          /\ call' = [op |-> "locality_polygon", locality_name |-> locality_name,
                      locality_center |-> locality_center, isr_adm2 |-> isr_adm2]
          /\ returned' = locality_polygon(locality_name, locality_center, isr_adm2)

-----------------------------------------------------------------------------
(* preprocess(): the pre-join reconciliation and the thread pool of
   enrich_metadata_with_geolocation *)

_NON_GEOGRAPHICAL_LOCALITY_IDS == {"0", "875", "99999", "9999"}
\* The localities of the input files, in the order of their ids and of
\* their names (the order groupby gives its groups).
Localities ==
    << [locality_id |-> "1", locality_name |-> "a"],
       [locality_id |-> "2", locality_name |-> "b"],
       [locality_id |-> "875", locality_name |-> "x"] >>
\* A null string cell.
NaNStr == "NaN"
\* A row of the parsed metadata: read_excel numbers the rows from 0, and
\* that number is the row's index label.
ParsedRow(index, l, ballot_id) ==
    [index |-> index, locality_id |-> Localities[l].locality_id,
     locality_name |-> Localities[l].locality_name, ballot_id |-> ballot_id,
     location_name |-> "school", address |-> "street"]
MetadataPool == <<ParsedRow(0, 1, "5.0"), ParsedRow(1, 2, "5.0"), ParsedRow(2, 1, "6.0")>>
ParsedMetadata == {SubSeq(MetadataPool, 1, n) : n \in 1..Len(MetadataPool)}
\* The locality ids of the votes rows.
VotesLocalityIds ==
    {ids \in SUBSET {Localities[l].locality_id : l \in 1..Len(Localities)} : ids # {}}
\* What the fetcher answers for a locality's two center candidates.
Inside == GeoDataResults(0, 0)
InsideToo == GeoDataResults(3, 0)
Outside == GeoDataResults(60, 0)
CenterAnswers == [village : {None, Inside, Outside}, bare : {None, InsideToo, Outside}]
\* The national boundary polygon.
IsraelPolygon == Adm2Rectangle(Point(-50, -50), Point(50, 50))
_within_israel_bounds(geodata) ==
    polygon_contains(IsraelPolygon, Point(geodata.longitude, geodata.latitude))

IdsOf(rows) == {rows[i].locality_id : i \in 1..Len(rows)}
KeepLocalities(ids) == SelectSeq(Localities, LAMBDA l : l.locality_id \in ids)

\* Mutant of missing_localities: the non-geographical ids are not left out.
missing_localities_with_sentinels(votes_locality_ids, parsed_metadata) ==
    LET missing_locality_ids == votes_locality_ids \ IdsOf(parsed_metadata)
        grouped == KeepLocalities(missing_locality_ids)
    IN  [i \in 1..Len(grouped) |->
            [index |-> i - 1, locality_id |-> grouped[i].locality_id,
             locality_name |-> grouped[i].locality_name, ballot_id |-> "0.0",
             location_name |-> NaNStr, address |-> NaNStr]]

\* Lines 256-262: one row per locality id of the votes that the metadata
\* lacks, numbered from 0 by reset_index().
missing_localities(votes_locality_ids, parsed_metadata) ==
    LET missing_locality_ids ==
            (votes_locality_ids \ IdsOf(parsed_metadata)) \ _NON_GEOGRAPHICAL_LOCALITY_IDS
        grouped == KeepLocalities(missing_locality_ids)
    IN  [i \in 1..Len(grouped) |->
            [index |-> i - 1, locality_id |-> grouped[i].locality_id,
             locality_name |-> grouped[i].locality_name, ballot_id |-> "0.0",
             location_name |-> NaNStr, address |-> NaNStr]]

\* Mutant of _enrich_locality_strategy: the bare name is tried first.
_enrich_locality_strategy_bare_name_first(answers) ==
    IF answers.bare # None /\ _within_israel_bounds(answers.bare) THEN answers.bare
    ELSE IF answers.village # None /\ _within_israel_bounds(answers.village)
    THEN answers.village
    ELSE Raised("ValueError")

\* _enrich_locality_strategy, given the fetcher's answers for
\* _VILLAGE + ' ' + locality_name and for locality_name.
_enrich_locality_strategy(answers) ==
    IF answers.village # None /\ _within_israel_bounds(answers.village) THEN answers.village
    ELSE IF answers.bare # None /\ _within_israel_bounds(answers.bare) THEN answers.bare
    ELSE Raised("ValueError")

\* list(grouped): the distinct locality names of the frame, sorted.
GroupKeys(frame) ==
    LET names == {frame[i].locality_name : i \in 1..Len(frame)}
        kept == SelectSeq(Localities, LAMBDA l : l.locality_name \in names)
    IN  [i \in 1..Len(kept) |-> kept[i].locality_name]

\* ldf.apply(...): one row of lat / lng per row of the group, under the
\* row's index label; the value stands for what the task of this locality
\* computed for this station.
EnrichedGroup(frame, locality_name, locality_center) ==
    LET ldf == SelectSeq(frame, LAMBDA row : row.locality_name = locality_name)
    IN  [i \in 1..Len(ldf) |->
            [index |-> ldf[i].index,
             lat_lng |-> [task |-> locality_name, ballot_id |-> ldf[i].ballot_id,
                          locality_center |-> locality_center]]]

\* pd.concat(list(all_enriched)): the results in the order of the tasks.
RECURSIVE Concat(_, _)
Concat(keys, results) ==
    IF keys = <<>> THEN <<>>
    ELSE results[Head(keys)].res \o Concat(Tail(keys), results)

\* metadata_df.join(enriched): a left join on the index labels; a row
\* appears once per row of the other frame under the same label.
RECURSIVE JoinOnIndex(_, _)
JoinOnIndex(frame, other) ==
    IF frame = <<>> THEN <<>>
    ELSE LET row == Head(frame)
             matches == SelectSeq(other, LAMBDA e : e.index = row.index)
         IN  (IF matches = <<>>
              THEN << [row |-> row, lat_lng |-> NaN] >>
              ELSE [i \in 1..Len(matches) |->
                       [row |-> row, lat_lng |-> matches[i].lat_lng]])
             \o JoinOnIndex(Tail(frame), other)

\* Iterating exc.map's results: the first exception in the order of the
\* tasks is raised, whatever order the tasks ended in.
RECURSIVE FirstRaised(_, _)
FirstRaised(keys, results) ==
    IF keys = <<>> THEN None
    ELSE IF results[Head(keys)].kind = "raise" THEN results[Head(keys)]
    ELSE FirstRaised(Tail(keys), results)

Queued == [kind |-> "queued"]

PoolInit ==
    /\ raw_campaign_data \in [votes_locality_ids : VotesLocalityIds, metadata : ParsedMetadata,
                     geocoder : [{"a", "b"} -> CenterAnswers]]
    /\ reconciled_metadata_df = <<>>
    /\ futures = <<>>
    /\ finished = <<>>
    /\ enrich_result = None
    /\ pool_pc = "reconcile"

\* preprocess(), lines 256-263: append the rows of the missing localities.
Reconcile ==
    /\ pool_pc = "reconcile"
    /\ reconciled_metadata_df' = raw_campaign_data.metadata
                         \o missing_localities(raw_campaign_data.votes_locality_ids, raw_campaign_data.metadata)
    /\ pool_pc' = "dispatch"
    /\ UNCHANGED <<raw_campaign_data, futures, finished, enrich_result>>

\* enrich_metadata_with_geolocation, lines 209-223: one task per locality
\* name is handed to the pool.
Dispatch ==
    /\ pool_pc = "dispatch"
    /\ futures' = [name \in {GroupKeys(reconciled_metadata_df)[i] :
                                i \in 1..Len(GroupKeys(reconciled_metadata_df))} |-> Queued]
    /\ pool_pc' = "running"
    /\ UNCHANGED <<raw_campaign_data, reconciled_metadata_df, finished, enrich_result>>

\* A worker thread: _enrich_per_locality up to the locality center.
EnrichLocalityStrategy(locality_name) ==
    /\ pool_pc = "running"
    /\ futures[locality_name] = Queued
    /\ LET r == _enrich_locality_strategy(raw_campaign_data.geocoder[locality_name]) IN
       IF r.kind = "raise"
       THEN /\ futures' = [futures EXCEPT ![locality_name] = r]
            /\ finished' = Append(finished, locality_name)
       ELSE /\ futures' = [futures EXCEPT ![locality_name] =
                              [kind |-> "center", locality_center |-> r]]
            /\ UNCHANGED finished
    /\ UNCHANGED <<raw_campaign_data, reconciled_metadata_df, enrich_result, pool_pc>>

\* A worker thread: the rest of _enrich_per_locality, the stations' loop.
EnrichStations(locality_name) ==
    /\ pool_pc = "running"
    /\ futures[locality_name].kind = "center"
    /\ futures' = [futures EXCEPT ![locality_name] =
                      [kind |-> "done",
                       res |-> EnrichedGroup(reconciled_metadata_df, locality_name,
                                             futures[locality_name].locality_center)]]
    /\ finished' = Append(finished, locality_name)
    /\ UNCHANGED <<raw_campaign_data, reconciled_metadata_df, enrich_result, pool_pc>>

\* enrich_metadata_with_geolocation, lines 224-226: the with block ends
\* when every task has, then the results are concatenated and joined.
Collect ==
    /\ pool_pc = "running"
    /\ \A name \in DOMAIN futures : futures[name].kind \in {"done", "raise"}
    /\ enrich_result' = IF FirstRaised(GroupKeys(reconciled_metadata_df), futures) # None
                   THEN FirstRaised(GroupKeys(reconciled_metadata_df), futures)
                   ELSE [kind |-> "frame",
                         rows |-> JoinOnIndex(reconciled_metadata_df,
                                              Concat(GroupKeys(reconciled_metadata_df), futures))]
    /\ pool_pc' = "done"
    /\ UNCHANGED <<raw_campaign_data, reconciled_metadata_df, futures, finished>>

-----------------------------------------------------------------------------
(* _inner_func as the worker threads of the pool run it: line by line, on
   one cache folder, without a lock *)

Threads == {"t1", "t2"}
\* Memoized calls one worker thread makes.
MaxCallsPerThread == 2
\* The cleaned addresses the threads look up, all with the same API key.
ThreadAddresses == {<<"a">>, <<"b">>}
CacheFileOf(address) == args_hash(<<address, "k1">>, <<>>)
ThreadCacheFiles == {CacheFileOf(address) : address \in ThreadAddresses}

ThreadsInit ==
    /\ thread_pc = [t \in Threads |-> "idle"]
    /\ thread_call = [t \in Threads |-> [address |-> <<>>, made |-> 0]]
    /\ cache_files = [f \in ThreadCacheFiles |-> "absent"]
    /\ writers = [f \in ThreadCacheFiles |-> {}]
    /\ torn = {}

\* Lines 22-28: hash the arguments and ask whether the cache file exists.
CacheFileExists(t, address) ==
    /\ thread_pc[t] = "idle"
    /\ thread_call[t].made < MaxCallsPerThread
    /\ thread_call' = [thread_call EXCEPT ![t] = [address |-> address, made |-> @.made + 1]]
    /\ thread_pc' = [thread_pc EXCEPT ![t] =
                        IF cache_files[CacheFileOf(address)] # "absent"
                        THEN "load" ELSE "call"]
    /\ UNCHANGED <<cache_files, writers, torn>>

\* Lines 29-30: open the file and unpickle it; a file that was created and
\* not yet dumped into is empty, and pickle.load raises EOFError.
PickleLoad(t) ==
    /\ thread_pc[t] = "load"
    /\ IF cache_files[CacheFileOf(thread_call[t].address)] = "written"
       THEN /\ thread_pc' = [thread_pc EXCEPT ![t] = "idle"]
            /\ UNCHANGED torn
       ELSE /\ thread_pc' = [thread_pc EXCEPT ![t] = "raised"]
            /\ torn' = torn \cup {t}
    /\ UNCHANGED <<thread_call, cache_files, writers>>

\* Line 36: run the wrapped function.
CallFunc(t) ==
    /\ thread_pc[t] = "call"
    /\ thread_pc' = [thread_pc EXCEPT ![t] = "open"]
    /\ UNCHANGED <<thread_call, cache_files, writers, torn>>

\* Line 37: open(cache_file, 'wb') creates the file, or empties it.
OpenForWriting(t) ==
    /\ thread_pc[t] = "open"
    /\ cache_files' = [cache_files EXCEPT ![CacheFileOf(thread_call[t].address)] = "opened"]
    /\ writers' = [writers EXCEPT ![CacheFileOf(thread_call[t].address)] = @ \cup {t}]
    /\ thread_pc' = [thread_pc EXCEPT ![t] = "dump"]
    /\ UNCHANGED <<thread_call, torn>>

\* Line 38 and the end of the with block: dump the result, close the file.
PickleDump(t) ==
    /\ thread_pc[t] = "dump"
    /\ cache_files' = [cache_files EXCEPT ![CacheFileOf(thread_call[t].address)] = "written"]
    /\ thread_pc' = [thread_pc EXCEPT ![t] = "idle"]
    /\ UNCHANGED <<thread_call, writers, torn>>

-----------------------------------------------------------------------------
(* Specifications: one per component, the other components idle *)

MemoIdle ==
    /\ cache = [d \in Digests |-> NoFile]
    /\ env = [GEOFETCHER_CACHE_ONLY |-> "", GEOCODING_API_KEY |-> "k1"]
    /\ func_calls = [t \in ArgTuples |-> 0]
    /\ last = NoCall
SchemaIdle ==
    /\ record_class = "BallotsMetadata"
    /\ df = BallotsMetadata_dataframe_dtypes
    /\ construction = Pending
TranscribeIdle ==
    /\ transcribe = _HEBREW_TO_ENGLISH_TRASCRIBE
    /\ module_load = "pending"
ParsersIdle == ParsersInit
CLIIdle ==
    /\ config = <<>>
    /\ flags = [override |-> FALSE, single_campaign |-> NoFlag]
    /\ out_files = [name \in CampaignNames |-> [metadata |-> "absent", data |-> "absent"]]
    /\ pc = "main"
    /\ todo = <<>>
    /\ current = NoCampaign
    /\ parsed = {}
    /\ reported = {}
    /\ yields = <<>>
    /\ exit_status = Running

FunctionsIdle ==
    /\ call = NoCallYet
    /\ returned = None
ThreadsIdle ==
    /\ thread_pc = <<>>
    /\ thread_call = <<>>
    /\ cache_files = <<>>
    /\ writers = <<>>
    /\ torn = {}
PoolIdle ==
    /\ raw_campaign_data = None
    /\ reconciled_metadata_df = <<>>
    /\ futures = <<>>
    /\ finished = <<>>
    /\ enrich_result = None
    /\ pool_pc = "idle"
FunctionsFrame == UNCHANGED <<memoVars, schemaVars, transcribeVars, parserVars, cliVars, poolVars, threadVars>>

MemoFrame == UNCHANGED <<schemaVars, transcribeVars, parserVars, cliVars, functionVars, poolVars, threadVars>>
MemoNext ==
    \/ ProcessStart /\ MemoFrame
    \/ FetchGeocodeData /\ MemoFrame
SpecMemoInit ==
    MemoInit /\ SchemaIdle /\ TranscribeIdle /\ ParsersIdle /\ CLIIdle /\ FunctionsIdle /\ PoolIdle /\ ThreadsIdle
SpecMemo == SpecMemoInit /\ [][MemoNext]_vars

SchemaFrame == UNCHANGED <<memoVars, transcribeVars, parserVars, cliVars, functionVars, poolVars, threadVars>>
SchemaNext == Construct /\ SchemaFrame
SpecSchemaInit ==
    SchemaInit /\ MemoIdle /\ TranscribeIdle /\ ParsersIdle /\ CLIIdle /\ FunctionsIdle /\ PoolIdle /\ ThreadsIdle
SpecSchema == SpecSchemaInit /\ [][SchemaNext]_vars

TranscribeFrame == UNCHANGED <<memoVars, schemaVars, parserVars, cliVars, functionVars, poolVars, threadVars>>
TranscribeNext == LoadParsersModule /\ TranscribeFrame
SpecTranscribeInit ==
    TranscribeInit /\ MemoIdle /\ SchemaIdle /\ ParsersIdle /\ CLIIdle /\ FunctionsIdle /\ PoolIdle /\ ThreadsIdle
SpecTranscribe == SpecTranscribeInit /\ [][TranscribeNext]_vars

ParsersFrame == UNCHANGED <<memoVars, schemaVars, transcribeVars, cliVars, functionVars, poolVars, threadVars>>
ParsersNext ==
    \/ ExportAsExcel /\ ParsersFrame
    \/ DeleteSibling /\ ParsersFrame
    \/ ParsePdf /\ ParsersFrame
SpecParsersInit ==
    ParsersInit /\ MemoIdle /\ SchemaIdle /\ TranscribeIdle /\ CLIIdle /\ FunctionsIdle /\ PoolIdle /\ ThreadsIdle
SpecParsers == SpecParsersInit /\ [][ParsersNext]_vars

CLIFrame == UNCHANGED <<memoVars, schemaVars, transcribeVars, parserVars, functionVars, poolVars, threadVars>>
CLINext ==
    \/ MainStart /\ CLIFrame
    \/ LoadCampaign /\ CLIFrame
    \/ MainReturns /\ CLIFrame
    \/ EnrichAndJoin /\ CLIFrame
    \/ CheckExistingFiles /\ CLIFrame
    \/ DumpFiles /\ CLIFrame
    \/ PrintReport /\ CLIFrame
SpecCLIInit ==
    CLIInit /\ MemoIdle /\ SchemaIdle /\ TranscribeIdle /\ ParsersIdle /\ FunctionsIdle /\ PoolIdle /\ ThreadsIdle
SpecCLI == SpecCLIInit /\ [][CLINext]_vars

CleanNext == CleanHebrewAddress /\ FunctionsFrame
SpecCleanInit ==
    FunctionsIdle /\ MemoIdle /\ SchemaIdle /\ TranscribeIdle /\ ParsersIdle /\ CLIIdle /\ PoolIdle /\ ThreadsIdle
SpecClean == SpecCleanInit /\ [][CleanNext]_vars

TooltipNext == GenerateTooltip /\ FunctionsFrame
SpecTooltipInit ==
    FunctionsIdle /\ MemoIdle /\ SchemaIdle /\ TranscribeIdle /\ ParsersIdle /\ CLIIdle /\ PoolIdle /\ ThreadsIdle
SpecTooltip == SpecTooltipInit /\ [][TooltipNext]_vars

AggregateNext == AggregatePartiesVotes /\ FunctionsFrame
SpecAggregateInit ==
    FunctionsIdle /\ MemoIdle /\ SchemaIdle /\ TranscribeIdle /\ ParsersIdle /\ CLIIdle /\ PoolIdle /\ ThreadsIdle
SpecAggregate == SpecAggregateInit /\ [][AggregateNext]_vars

GridNext ==
    \/ GenerateGridBySize /\ FunctionsFrame
    \/ GenerateGridByLength /\ FunctionsFrame
    \/ GroupPointsByPolygons /\ FunctionsFrame
SpecGridInit ==
    FunctionsIdle /\ MemoIdle /\ SchemaIdle /\ TranscribeIdle /\ ParsersIdle /\ CLIIdle /\ PoolIdle /\ ThreadsIdle
SpecGrid == SpecGridInit /\ [][GridNext]_vars

JoinNext ==
    \/ PreprocessJoin /\ FunctionsFrame
    \/ PreprocessTiers /\ FunctionsFrame
SpecJoinInit ==
    FunctionsIdle /\ MemoIdle /\ SchemaIdle /\ TranscribeIdle /\ ParsersIdle /\ CLIIdle /\ PoolIdle /\ ThreadsIdle
SpecJoin == SpecJoinInit /\ [][JoinNext]_vars

EnrichNext ==
    \/ NormalizeOptionalAddresses /\ FunctionsFrame
    \/ EnrichAddressesStrategy /\ FunctionsFrame
    \/ ChooseLocalityPolygon /\ FunctionsFrame
SpecEnrichInit ==
    FunctionsIdle /\ MemoIdle /\ SchemaIdle /\ TranscribeIdle /\ ParsersIdle /\ CLIIdle /\ PoolIdle /\ ThreadsIdle
SpecEnrich == SpecEnrichInit /\ [][EnrichNext]_vars

PoolFrame == UNCHANGED <<memoVars, schemaVars, transcribeVars, parserVars, cliVars, functionVars, threadVars>>
PoolNext ==
    \/ Reconcile /\ PoolFrame
    \/ Dispatch /\ PoolFrame
    \/ (\E locality_name \in DOMAIN futures : EnrichLocalityStrategy(locality_name)) /\ PoolFrame
    \/ (\E locality_name \in DOMAIN futures : EnrichStations(locality_name)) /\ PoolFrame
    \/ Collect /\ PoolFrame
SpecPoolInit ==
    PoolInit /\ MemoIdle /\ SchemaIdle /\ TranscribeIdle /\ ParsersIdle /\ CLIIdle /\ FunctionsIdle /\ ThreadsIdle
SpecPool == SpecPoolInit /\ [][PoolNext]_vars

ThreadsFrame ==
    UNCHANGED <<memoVars, schemaVars, transcribeVars, parserVars, cliVars, functionVars,
                poolVars>>
ThreadsNext ==
    \/ (\E t \in Threads, address \in ThreadAddresses : CacheFileExists(t, address))
          /\ ThreadsFrame
    \/ (\E t \in Threads : PickleLoad(t)) /\ ThreadsFrame
    \/ (\E t \in Threads : CallFunc(t)) /\ ThreadsFrame
    \/ (\E t \in Threads : OpenForWriting(t)) /\ ThreadsFrame
    \/ (\E t \in Threads : PickleDump(t)) /\ ThreadsFrame
SpecThreadsInit ==
    ThreadsInit /\ MemoIdle /\ SchemaIdle /\ TranscribeIdle /\ ParsersIdle /\ CLIIdle
       /\ FunctionsIdle /\ PoolIdle
SpecThreads == SpecThreadsInit /\ [][ThreadsNext]_vars

-----------------------------------------------------------------------------
(* Claims about the local cache and the geocoding fetcher (SpecMemo) *)

\* GEOFETCHER_CACHE_ONLY holds one of 1 / true / yes, in any letter case.
ToggleSet(environ) == environ.GEOFETCHER_CACHE_ONLY \in {"1", "True", "YES"}

\* The step just taken is a call of the memoized function with arguments t.
MemoizedCall(t) == last'.op = "fetch_geocode_data" /\ last'.memo_args = t

\* The cleaned address is a row of the bundled table, bare or under the
\* village prefix.
KnownRows(raw_address) ==
    {row \in KnownAddressesCsv :
        LET known == clean_hebrew_address(row.address) IN
        clean_hebrew_address(raw_address) \in {known, <<"v", " ">> \o known}}

\* C1: with cache-only mode off the wrapped function runs at most once per
\* argument tuple: a call that finds no entry runs it and stores what it
\* returned under the digest of the arguments; a call that finds an entry
\* returns the stored value, does not run the function and leaves the entry.
C1_InvokedAtMostOncePerArguments ==
    [][\A t \in ArgTuples :
        LET d == args_hash(t, <<>>) IN
        /\ func_calls'[t] <= 1
        /\ cache[d] # NoFile =>
              /\ func_calls'[t] = func_calls[t]
              /\ cache'[d] = cache[d]
              /\ MemoizedCall(t) => last'.memo = cache[d] /\ ~last'.invoked
        /\ (cache[d] = NoFile /\ MemoizedCall(t) /\ ~ToggleSet(env')) =>
              /\ last'.invoked
              /\ func_calls'[t] = func_calls[t] + 1
              /\ cache'[d] = last'.memo
              /\ cache'[d] # NoFile
      ]_vars

\* C1 witness: a second call with the same arguments was served from the
\* cache after the first one ran the function.
C1_Witness ==
    /\ last.op = "fetch_geocode_data"
    /\ ~ToggleSet(env)
    /\ last.hit
    /\ ~last.invoked
    /\ func_calls[last.memo_args] = 1

\* C2: in cache-only mode a memoized call that finds no entry for its digest
\* raises, does not run the wrapped function and leaves every cache file as
\* it was.
C2_CacheOnlyMissRaises ==
    [][\A t \in ArgTuples :
        (ToggleSet(env') /\ MemoizedCall(t) /\ cache[args_hash(t, <<>>)] = NoFile) =>
            /\ last'.memo.kind = "raise"
            /\ ~last'.invoked
            /\ func_calls' = func_calls
            /\ cache' = cache
      ]_vars

C2_Witness ==
    /\ last.op = "fetch_geocode_data"
    /\ ToggleSet(env)
    /\ last.memo.kind = "raise"
    /\ cache[args_hash(last.memo_args, <<>>)] = NoFile

\* C3: an absent (None) lookup result is never written to the cache, so no
\* cache entry ever holds None.
C3_AbsentResultNotCached == \A d \in Digests : cache[d] # None

\* C8: fetch_geocode_data on an address whose cleaned form is a known
\* address, bare or prefix-duplicated, returns the stored coordinate, calls
\* neither the external service nor the memoized lookup, and leaves the
\* cache as it was.
C8_KnownAddressServedFromTable ==
    [][(last'.op = "fetch_geocode_data" /\ KnownRows(last'.address) # {}) =>
          /\ \E row \in KnownRows(last'.address) :
                last'.value = GeoDataResults(row.lng, row.lat)
          /\ last'.service = NotCalled
          /\ last'.memo = NotCalled
          /\ ~last'.hit
          /\ cache' = cache
          /\ func_calls' = func_calls
      ]_vars

\* C8 witness: a prefix-duplicated known address was fetched.
C8_Witness ==
    /\ last.op = "fetch_geocode_data"
    /\ clean_hebrew_address(last.address) = <<"v", " ", "a">>
    /\ last.value.kind = "GeoDataResults"

\* C9: with cache-only mode off, fetch_geocode_data on an address that is
\* not known does not raise; when the service call raised or returned no
\* candidate the result is None, and when it returned candidates the result
\* is the coordinate of the first one.
C9_UnknownAddressNeverRaises ==
    (last.op = "fetch_geocode_data" /\ ~ToggleSet(env) /\ KnownRows(last.address) = {}) =>
        /\ last.value.kind # "raise"
        /\ last.service.kind = "raise" => last.value = None
        /\ last.service = List(<<>>) => last.value = None
        /\ (last.service.kind = "list" /\ last.service # List(<<>>)) =>
              last.value = GeoDataResults(
                  last.service.items[1].geometry.location.lng,
                  last.service.items[1].geometry.location.lat)
        /\ last.service = NotCalled => last.hit

\* C9 witness: the service raised on an unknown address and the fetch
\* returned None.
C9_Witness ==
    /\ last.op = "fetch_geocode_data"
    /\ ~ToggleSet(env)
    /\ last.service.kind = "raise"
    /\ last.value = None

\* C10: with the GEOFETCHER_CACHE_ONLY toggle set, fetch_geocode_data on an
\* address that is neither known nor cached raises (it does not return None)
\* and the external service is not called.
C10_CacheOnlyFetchFailsFast ==
    [][(/\ last'.op = "fetch_geocode_data"
        /\ ToggleSet(env')
        /\ KnownRows(last'.address) = {}
        /\ cache[args_hash(<<clean_hebrew_address(last'.address),
                             env'.GEOCODING_API_KEY>>, <<>>)] = NoFile) =>
          /\ last'.value.kind = "raise"
          /\ last'.service = NotCalled
          /\ func_calls' = func_calls
      ]_vars

\* C10 witness: the toggle is set in mixed case and the fetch of an unknown,
\* uncached address raised.
C10_Witness ==
    /\ last.op = "fetch_geocode_data"
    /\ env.GEOFETCHER_CACHE_ONLY = "True"
    /\ KnownRows(last.address) = {}
    /\ last.value.kind = "raise"

-----------------------------------------------------------------------------
(* Claims about the typed tabular records (SpecSchema) *)

\* C4: constructing a typed tabular record succeeds exactly when the table's
\* column set is the declared one and every column has its declared dtype;
\* a missing column, an extra column and a wrongly typed column each make it
\* raise a ValueError.
C4_ConstructionIffSchemaMatches ==
    LET declared == _dataframe_dtypes(record_class)
        missing == \E c \in DOMAIN declared : c \notin DOMAIN df
        extra == \E c \in DOMAIN df : c \notin DOMAIN declared
        mistyped == \E c \in DOMAIN declared \cap DOMAIN df : df[c] # declared[c]
    IN  construction # Pending =>
          /\ construction = Constructed <=> ~missing /\ ~extra /\ ~mistyped
          /\ (missing \/ extra \/ mistyped) => construction.kind = "ValueError"

\* C4 witness: a table with exactly the declared columns, one of them with
\* the wrong dtype, was rejected.
C4_Witness ==
    /\ construction.kind = "ValueError"
    /\ DOMAIN df = DOMAIN _dataframe_dtypes(record_class)
    /\ Cardinality({c \in DOMAIN df : df[c] # _dataframe_dtypes(record_class)[c]}) = 1

-----------------------------------------------------------------------------
(* Claims about the transliteration table (SpecTranscribe) *)

ValueUnique(d) == \A x, y \in DOMAIN d : d[x] = d[y] => x = y

\* C7: the assertion under the transliteration table passes exactly when
\* the table's Latin tokens are pairwise distinct, and the table in the
\* source passes it.
C7_AssertionIffValueUnique ==
    module_load # "pending" =>
        /\ module_load = "loaded" <=> ValueUnique(transcribe)
        /\ transcribe = _HEBREW_TO_ENGLISH_TRASCRIBE => module_load = "loaded"

-----------------------------------------------------------------------------
(* Claims about the PDF metadata parser (SpecParsers) *)

\* C6: parsing a PDF metadata source whose table is well formed succeeds
\* whether or not its sibling cache file existed beforehand, and the cache
\* file exists next to the source afterwards.
C6_PdfParseSucceedsAndLeavesCache ==
    (parse_result.op = "parse" /\ parse_result.table_ok) =>
        /\ parse_result.returned.kind = "BallotsMetadata"
        /\ parse_result.path \in converted

-----------------------------------------------------------------------------
(* Claims about preprocess() and the CLI (SpecCLI) *)

UnknownFormatExit ==
    exit_status.kind = "ValueError" /\ exit_status.what = "Unknown format"
WrittenThisRun(name) ==
    out_files[name].metadata = "new" \/ out_files[name].data = "new"
\* Campaigns of this run that the generator finished before the current one.
EarlierCampaigns ==
    IF flags.single_campaign # NoFlag THEN {}
    ELSE {config[i].name : i \in DOMAIN config} \
         ({current.name} \cup {todo[i].name : i \in DOMAIN todo})

\* C5 (as stated): a run that fails on an unsupported parser format key
\* fails before any source file is parsed and before any output file is
\* written.
C5_UnknownFormatFailsAtStartup ==
    UnknownFormatExit =>
        /\ parsed = {}
        /\ \A name \in CampaignNames : ~WrittenThisRun(name)

\* C5 (amended): an unsupported parser format key ends the run when the
\* generator loads the offending campaign: that campaign's votes file has
\* not been parsed (nor its metadata file when the metadata key is the bad
\* one), nothing of it or of a later campaign has been written or parsed,
\* and every earlier campaign of the run has been parsed and then written
\* or skipped.
C5_UnknownFormatFailsAtItsCampaign ==
    UnknownFormatExit =>
        /\ pc = "exited"
        /\ exit_status.detail \in
              {current.ballots_metadata_format, current.ballots_votes_format}
        /\ <<current.name, "ballots_votes">> \notin parsed
        /\ current.ballots_metadata_format \notin {"excel", "pdf"} =>
              <<current.name, "ballots_metadata">> \notin parsed
        /\ ~WrittenThisRun(current.name)
        /\ \A i \in DOMAIN todo :
              /\ ~WrittenThisRun(todo[i].name)
              /\ \A file \in {"ballots_metadata", "ballots_votes"} :
                    <<todo[i].name, file>> \notin parsed
        /\ \A name \in EarlierCampaigns :
              /\ <<name, "ballots_metadata">> \in parsed
              /\ <<name, "ballots_votes">> \in parsed
              /\ \/ out_files[name] = [metadata |-> "new", data |-> "new"]
                 \/ ~flags.override /\ ~WrittenThisRun(name)

\* C5 witness: the bad key is in the second campaign and the first
\* campaign's files have been written by then.
C5_Witness ==
    /\ UnknownFormatExit
    /\ \E name \in EarlierCampaigns :
          out_files[name] = [metadata |-> "new", data |-> "new"]

\* A file of the campaign was left in the output folder by an earlier run.
HasOld(name) ==
    out_files[name].metadata = "old" \/ out_files[name].data = "old"
\* The campaigns handed to preprocess(), in order.
RunCampaigns ==
    LET filtered == single_campaign_filter(config, flags.single_campaign) IN
    IF filtered.kind = "campaigns" THEN filtered.campaigns ELSE <<>>
BothNew == [metadata |-> "new", data |-> "new"]

C13_OverrideRegeneratesBothFiles ==
    \A i \in DOMAIN yields :
        (flags.override
           /\ (yields[i] # current.name \/ pc \in {"report", "generator", "exited"})) =>
            out_files[yields[i]] = BothNew

\* C14: when the single-campaign filter names no configured campaign the
\* first step of main() exits with status 1; no campaign is loaded, parsed
\* or enriched and no output file is written or deleted.
C14_UnknownSingleCampaignExitsAtOnce ==
    [][(/\ flags.single_campaign # NoFlag
        /\ \A i \in DOMAIN config : config[i].name # flags.single_campaign) =>
          /\ pc' = "exited"
          /\ exit_status' = Exit(1)
          /\ exit_status'.code # 0
          /\ current' = NoCampaign
          /\ parsed' = {}
          /\ yields' = <<>>
          /\ reported' = {}
          /\ out_files' = out_files]_vars

\* C14 witness: the run has ended on the unknown filter name.
C14_Witness ==
    /\ flags.single_campaign = "knesset-99"
    /\ pc = "exited"
    /\ exit_status = Exit(1)

\* The yielded campaign went through the loop body of main(): its files
\* were written, or were left as found because they existed and override
\* is unset.
Handled(name) ==
    \/ out_files[name] = BothNew
    \/ ~flags.override /\ HasOld(name) /\ ~WrittenThisRun(name)

\* C15: the generator yields the campaigns handed to it one by one in list
\* order, each once; no source file of a campaign is parsed before every
\* campaign in front of it has been yielded and has gone through the loop
\* body of main(); when a campaign fails in the generator the campaigns in
\* front of it have been persisted and nothing is written for it or for a
\* later campaign; a run that exits zero has yielded every campaign.
C15_LazyInOrderYield ==
    /\ Len(yields) <= Len(RunCampaigns)
    /\ \A i \in DOMAIN yields : yields[i] = RunCampaigns[i].name
    /\ (pc = "exited" /\ exit_status = Exit(0)) => Len(yields) = Len(RunCampaigns)
    /\ \A file \in parsed :
          \/ \E i \in DOMAIN yields : yields[i] = file[1]
          \/ file[1] = current.name
    /\ \A i \in DOMAIN yields :
          (yields[i] # current.name) => Handled(yields[i])
    /\ (pc = "exited" /\ exit_status.kind = "ValueError") =>
          /\ \A i \in DOMAIN yields : Handled(yields[i])
          /\ ~WrittenThisRun(current.name)
          /\ \A i \in DOMAIN todo : ~WrittenThisRun(todo[i].name)

\* C15 witness: the second campaign failed in the generator after the
\* first one was yielded and written.
C15_Witness ==
    /\ pc = "exited"
    /\ exit_status.kind = "ValueError"
    /\ Len(yields) = 1
    /\ out_files[yields[1]] = BothNew
    /\ current.name # yields[1]

-----------------------------------------------------------------------------
(* Claims about clean_hebrew_address (SpecClean) *)

\* Positions of the word characters of s, in increasing order.
WordPositions(s) ==
    SelectSeq([i \in 1..Len(s) |-> i], LAMBDA i : s[i] \in WordChars)
\* s holds word characters separated by single spaces and nothing else.
IsCleanString(s) ==
    /\ \A i \in 1..Len(s) : s[i] \in WordChars \cup {" "}
    /\ s # <<>> => s[1] # " " /\ s[Len(s)] # " "
    /\ \A i \in 1..(Len(s) - 1) : ~(s[i] = " " /\ s[i + 1] = " ")

\* C20: clean_hebrew_address gives "" for None and for "", and otherwise
\* the word characters of its input in order, two neighbours separated by
\* one space exactly when a run of other characters separated them; the
\* output has no space at either end and no two adjacent spaces, a clean
\* string is returned unchanged, and cleaning the output changes nothing.
C20_CleanHebrewAddress ==
    call.op = "clean_hebrew_address" =>
        LET input == IF call.address_string = NoneStr THEN <<>> ELSE call.address_string
            in_pos == WordPositions(input)
            out_pos == WordPositions(returned)
        IN  /\ input = <<>> => returned = <<>>
            /\ IsCleanString(returned)
            /\ Len(out_pos) = Len(in_pos)
            /\ \A k \in 1..Len(in_pos) :
                  /\ returned[out_pos[k]] = input[in_pos[k]]
                  /\ k > 1 =>
                        out_pos[k] - out_pos[k - 1] =
                            (IF in_pos[k] - in_pos[k - 1] > 1 THEN 2 ELSE 1)
            /\ IsCleanString(input) => returned = input
            /\ clean_hebrew_address(returned) = returned

\* C20 witness: a string with a run of two non-word characters between
\* words and one at the end has been cleaned.
C20_Witness ==
    /\ call.op = "clean_hebrew_address"
    /\ call.address_string = <<"a", "-", " ", "1">>
    /\ returned = <<"a", " ", "1">>

-----------------------------------------------------------------------------
(* Claims about the tooltip (SpecTooltip) *)

\* C19: the tooltip of a row whose party votes total zero is rendered
\* without an error and lists no party.
C19_ZeroTotalShowsNoParties ==
    (call.op = "generate_tooltip_html_for_per_location_row"
       /\ SumCounts(call.parties_votes) = 0) =>
        returned = Html(<<>>)

-----------------------------------------------------------------------------
(* Claims about aggregate_parties_votes (SpecAggregate) *)

KeysOf(votes_dict) == {votes_dict[i][1] : i \in DOMAIN votes_dict}
\* The count of the party in the dict, zero when the party is absent.
CountIn(votes_dict, party) ==
    IF party \in KeysOf(votes_dict)
    THEN votes_dict[CHOOSE i \in DOMAIN votes_dict : votes_dict[i][1] = party][2]
    ELSE 0
RECURSIVE TotalOf(_, _)
TotalOf(parties_votes, party) ==
    IF parties_votes = <<>> THEN 0
    ELSE CountIn(Head(parties_votes), party) + TotalOf(Tail(parties_votes), party)
IndexPermutations(n) ==
    {f \in [1..n -> 1..n] : \A i, j \in 1..n : f[i] = f[j] => i = j}

\* C16: the result of aggregate_parties_votes has the union of the inputs'
\* parties as its keys and for each the sum of its counts over the inputs;
\* no input gives the empty mapping, one input gives that input, and every
\* reordering of the inputs gives the same result.
C16_AggregateIsKeywiseSum ==
    call.op = "aggregate_parties_votes" =>
        LET parties_votes == call.parties_votes
            n == Len(parties_votes)
        IN  /\ DOMAIN returned = UNION {KeysOf(parties_votes[i]) : i \in 1..n}
            /\ \A party \in DOMAIN returned :
                  returned[party] = TotalOf(parties_votes, party)
            /\ n = 0 => DOMAIN returned = {}
            /\ n = 1 =>
                  /\ DOMAIN returned = KeysOf(parties_votes[1])
                  /\ \A i \in DOMAIN parties_votes[1] :
                        returned[parties_votes[1][i][1]] = parties_votes[1][i][2]
            /\ \A f \in IndexPermutations(n) :
                  aggregate_parties_votes([i \in 1..n |-> parties_votes[f[i]]]) = returned

\* C16 witness: two inputs, one party in both and one in the second only,
\* listed out of name order.
C16_Witness ==
    /\ call.op = "aggregate_parties_votes"
    /\ call.parties_votes = << << <<"b", 1>>, <<"a", 0>> >>, << <<"c", 0>>, <<"b", 1>> >> >>
    /\ returned = [a |-> 0, b |-> 2, c |-> 0]

-----------------------------------------------------------------------------
(* Claims about the grid generators (SpecGrid) *)

\* Length of the overlap of the intervals lo1..hi1 and lo2..hi2.
OverlapLength(lo1, hi1, lo2, hi2) ==
    LET lo == IF lo1 > lo2 THEN lo1 ELSE lo2
        hi == IF hi1 < hi2 THEN hi1 ELSE hi2
    IN  IF hi > lo THEN hi - lo ELSE 0
OverlapArea(c1, c2) ==
    OverlapLength(c1.minx, c1.maxx, c2.minx, c2.maxx)
        * OverlapLength(c1.miny, c1.maxy, c2.miny, c2.maxy)
PixelBox(px) == box(Scale * px[1], Scale * px[2], Scale * (px[1] + 1), Scale * (px[2] + 1))
RECURSIVE SumOverlap(_, _, _)
SumOverlap(cells, ids, target) ==
    IF ids = {} THEN 0
    ELSE LET id == CHOOSE x \in ids : TRUE IN
         OverlapArea(cells[id], target) + SumOverlap(cells, ids \ {id}, target)
NoOverlap(cells) ==
    \A i, j \in DOMAIN cells : i # j => OverlapArea(cells[i], cells[j]) = 0
\* Cells that do not overlap cover the polygon when the parts of each of
\* its pixels inside the cells add up to the whole pixel.
Covers(cells, polygon) ==
    \A px \in polygon : SumOverlap(cells, DOMAIN cells, PixelBox(px)) = Scale * Scale

\* C17: under both strategies the generated cells are pairwise free of
\* positive-area overlap and cover the polygon, and so do the cells that
\* are left once those not intersecting the polygon are discarded.
C17_GridCoversWithoutOverlap ==
    call.op \in {"generate_grid_by_size", "generate_grid_by_length"} =>
        /\ NoOverlap(returned.cells)
        /\ Covers(returned.cells, call.polygon)
        /\ NoOverlap(returned.grid)
        /\ Covers(returned.grid, call.polygon)

\* C17 witness: a by-length grid whose cells overshoot an L-shaped polygon
\* and of which a cell was discarded.
C17_Witness ==
    /\ call.op = "generate_grid_by_length"
    /\ call.polygon = RectanglePixels(0, 1, 0, 3) \cup RectanglePixels(0, 3, 0, 1)
    /\ call.grid_length = 2 * Scale
    /\ Len(returned.cells) = 4
    /\ DOMAIN returned.grid = {0, 1, 2}

StrictlyInside(cell, point) ==
    /\ cell.minx < point.x /\ point.x < cell.maxx
    /\ cell.miny < point.y /\ point.y < cell.maxy
RECURSIVE SumOfSizes(_, _)
SumOfSizes(groups, ids) ==
    IF ids = {} THEN 0
    ELSE LET id == CHOOSE x \in ids : TRUE IN
         Cardinality(groups[id]) + SumOfSizes(groups, ids \ {id})

\* C18: group_points_by_polygons over a generated grid puts a point in the
\* group of a cell exactly when the cell contains it, so in at most one
\* group; a point no cell contains is in no group, no group is empty, and
\* the group sizes add up to the number of contained points.
C18_PointsGroupedByContainingCell ==
    call.op = "group_points_by_polygons" =>
        LET polygons == call.polygons
            inside == {pt \in call.points :
                          \E id \in DOMAIN polygons : StrictlyInside(polygons[id], PointAt(pt))}
        IN  /\ DOMAIN returned \subseteq DOMAIN polygons
            /\ \A id \in DOMAIN returned : returned[id] # {}
            /\ \A id \in DOMAIN polygons, pt \in call.points :
                  (id \in DOMAIN returned /\ pt \in returned[id])
                      <=> StrictlyInside(polygons[id], PointAt(pt))
            /\ \A pt \in call.points :
                  Cardinality({id \in DOMAIN returned : pt \in returned[id]}) <= 1
            /\ \A pt \in call.points \ inside :
                  \A id \in DOMAIN returned : pt \notin returned[id]
            /\ SumOfSizes(returned, DOMAIN returned) = Cardinality(inside)

\* C18 witness: a 2 x 2 grid over the whole lattice, with a point inside a
\* cell, a point on the line between cells, a point far outside, and cells
\* left without a point.
C18_Witness ==
    /\ call.op = "group_points_by_polygons"
    /\ call.points = {1, 2, 4}
    /\ DOMAIN call.polygons = {0, 1, 2, 3}
    /\ DOMAIN returned = {0}
    /\ returned[0] = {1}

-----------------------------------------------------------------------------
(* Claims about the three-tier join (SpecJoin) *)

\* The metadata frame has a row with a coordinate under this key.
KnownAt(metadata_df, key) ==
    key \in DOMAIN metadata_df /\ metadata_df[key].kind = "coordinate"
SubStationKey(row) == [row EXCEPT !.ballot_id = <<row.ballot_id[1], 0>>]
KnownInLocality(metadata_df, locality_id) ==
    {key \in JoinRows : key.locality_id = locality_id /\ KnownAt(metadata_df, key)}
RECURSIVE Total(_, _, _)
Total(metadata_df, keys, axis) ==
    IF keys = {} THEN 0
    ELSE LET key == CHOOSE k \in keys : TRUE IN
         metadata_df[key][axis][1] + Total(metadata_df, keys \ {key}, axis)

\* C11: every votes row has the coordinate of its exact metadata row when
\* that row has one, else the coordinate of the metadata row of its
\* station with sub-station 0 when that has one, else the mean of the
\* known metadata coordinates of its locality (null when there is none).
C11_FirstTierWithCoordinateWins ==
    call.op = "preprocess_join" =>
        \A row \in call.votes_df :
            LET metadata_df == call.metadata_df
                known == KnownInLocality(metadata_df, row.locality_id)
            IN  returned[row] =
                    (IF KnownAt(metadata_df, row) THEN metadata_df[row]
                     ELSE IF KnownAt(metadata_df, SubStationKey(row))
                     THEN metadata_df[SubStationKey(row)]
                     ELSE IF known = {} THEN NaN
                     ELSE [kind |-> "coordinate",
                           lat |-> <<Total(metadata_df, known, "lat"), Cardinality(known)>>,
                           lng |-> <<Total(metadata_df, known, "lng"), Cardinality(known)>>])

\* C11 witness: row 1-5.1 has no metadata row and takes the coordinate of
\* 1-5.0, which differs from the locality mean; row 2-5.1 matches neither
\* tier and takes a locality mean.
C11_Witness ==
    /\ call.op = "preprocess_join"
    /\ call.metadata_df[BallotRow(1, 5, 1)] = Absent
    /\ call.metadata_df[BallotRow(1, 5, 0)] = Coordinate(1, 31, 1)
    /\ call.metadata_df[BallotRow(1, 6, 1)] = Coordinate(2, 32, 1)
    /\ returned[BallotRow(1, 5, 1)] = Coordinate(1, 31, 1)
    /\ call.metadata_df[BallotRow(2, 5, 0)] = NaN
    /\ call.metadata_df[BallotRow(2, 5, 1)] = Coordinate(2, 32, 1)
    /\ BallotRow(2, 5, 0) \in call.votes_df
    /\ returned[BallotRow(2, 5, 0)] = Coordinate(2, 32, 1)

\* The frame after the n-th merge.
Tier(n) == returned[n]
Resolved(merged_row) == merged_row.lat_lng # NaN

\* C21: a row that has a latitude and a longitude after the first merge is
\* the same row after the second and the third, and a row that has them
\* after the second merge is the same row after the third.
C21_ResolvedRowsAreLeftAlone ==
    call.op = "preprocess_tiers" =>
        \A row \in call.votes_df :
            /\ Resolved(Tier(1)[row]) => Tier(2)[row] = Tier(1)[row]
            /\ Resolved(Tier(2)[row]) => Tier(3)[row] = Tier(2)[row]

\* C21 witness: row 1-5.1 is resolved by its exact match while its station's
\* row 1-5.0 and the locality mean both hold another coordinate, and row
\* 2-5.1 is resolved by the second merge while the locality mean differs.
C21_Witness ==
    /\ call.op = "preprocess_tiers"
    /\ call.metadata_df[BallotRow(1, 5, 1)] = Coordinate(1, 31, 1)
    /\ call.metadata_df[BallotRow(1, 5, 0)] = Coordinate(2, 32, 1)
    /\ call.metadata_df[BallotRow(1, 6, 1)] = Coordinate(2, 32, 1)
    /\ Tier(3)[BallotRow(1, 5, 1)] =
          [lat_lng |-> Coordinate(1, 31, 1), location |-> LocationOf(BallotRow(1, 5, 1))]
    /\ call.metadata_df[BallotRow(2, 5, 1)] = Absent
    /\ call.metadata_df[BallotRow(2, 5, 0)] = Coordinate(2, 32, 1)
    /\ Tier(1)[BallotRow(2, 5, 1)].lat_lng = NaN
    /\ Tier(3)[BallotRow(2, 5, 1)] =
          [lat_lng |-> Coordinate(2, 32, 1), location |-> LocationOf(BallotRow(2, 5, 0))]

\* C30: a votes row whose exact index matches a metadata row that has a
\* location name and address but no coordinate carries that location name
\* and address in the final frame.
C30_MatchedRowKeepsItsMetadataColumns ==
    call.op = "preprocess_tiers" =>
        \A row \in call.votes_df :
            call.metadata_df[row] = NaN => Tier(3)[row].location = LocationOf(row)

-----------------------------------------------------------------------------
(* Claims about the geocoding enrichment (SpecEnrich) *)

Cleaned(name) == clean_hebrew_address(call[name])
Joined(parts) == parts[1] \o <<",", " ">> \o parts[2] \o <<",", " ">> \o _ISRAEL

\* C27: the candidate list is [village word + ' ' + locality, locality]
\* when the cleaned address equals the cleaned locality name, and otherwise
\* address+locality+country, location+locality+country,
\* location+address+locality+country, locality, in that order; its last
\* candidate is always the cleaned locality name.
C27_CandidateList ==
    call.op = "_normalize_optional_addresses" =>
        /\ Cleaned("address") = Cleaned("locality_name") =>
              /\ Len(returned) = 2
              /\ returned[1] = _VILLAGE \o <<" ">> \o Cleaned("locality_name")
        /\ Cleaned("address") # Cleaned("locality_name") =>
              /\ Len(returned) = 4
              /\ returned[1] = Joined(<<Cleaned("address"), Cleaned("locality_name")>>)
              /\ returned[2] = Joined(<<Cleaned("location_name"), Cleaned("locality_name")>>)
              /\ returned[3] =
                    Joined(<<Cleaned("location_name") \o <<" ">> \o Cleaned("address"),
                             Cleaned("locality_name")>>)
        /\ returned[Len(returned)] = Cleaned("locality_name")

\* C27 witness: an address that equals the locality name only after
\* cleaning gives the two-candidate list.
C27_Witness ==
    /\ call.op = "_normalize_optional_addresses"
    /\ call.locality_name = <<"a">>
    /\ call.address = <<"a", "-">>
    /\ returned = << <<"v", " ", "a">>, <<"a">> >>

\* The answer of the fetcher for the i-th candidate of the call.
Answer(i) == call.fetcher[call.addresses[i]]
InsidePolygon(answer) ==
    /\ call.locality_polygon.lo.x < answer.longitude
    /\ answer.longitude < call.locality_polygon.hi.x
    /\ call.locality_polygon.lo.y < answer.latitude
    /\ answer.latitude < call.locality_polygon.hi.y
\* Closer to the center than 10 km, at 0.01 degree the kilometre.
NearCenter(answer) ==
    LET dx == answer.longitude - call.locality_center.x
        dy == answer.latitude - call.locality_center.y
    IN  dx * dx + dy * dy < 10 * 10
ValidCandidates ==
    {i \in 1..Len(call.addresses) :
        /\ Answer(i) # None
        /\ IF call.locality_polygon # None
           THEN InsidePolygon(Answer(i)) ELSE NearCenter(Answer(i))}

\* C23: the station gets the coordinate of its first candidate, in list
\* order, that geocodes and is valid (inside the validation polygon when
\* there is one, else closer than 10 km to the center), the fetcher is
\* asked for the candidates up to that one and no other, and a station
\* without a valid candidate gets null lat and lng after all were asked.
C23_FirstValidCandidateWins ==
    call.op = "_enrich_addresses_strategy" =>
        IF ValidCandidates = {}
        THEN returned = [lat_lng |-> NaN, fetched |-> call.addresses]
        ELSE LET first == CHOOSE i \in ValidCandidates :
                              \A j \in ValidCandidates : i <= j
             IN  /\ returned.lat_lng = [lat |-> Answer(first).latitude,
                                        lng |-> Answer(first).longitude]
                 /\ returned.fetched = SubSeq(call.addresses, 1, first)

\* C23 witness: with a polygon, the first candidate geocodes near the
\* center but outside the polygon, the second inside the polygon but
\* 10 km away, and a third candidate is not asked for.
C23_Witness ==
    /\ call.op = "_enrich_addresses_strategy"
    /\ call.addresses = << <<"a">>, <<"b">>, <<"a">> >>
    /\ call.locality_center = Point(0, 0)
    /\ call.locality_polygon # None
    /\ call.fetcher[<<"a">>] = GeoDataResults(0, -5)
    /\ call.fetcher[<<"b">>] = GeoDataResults(6, 8)
    /\ returned = [lat_lng |-> [lat |-> 8, lng |-> 6], fetched |-> << <<"a">>, <<"b">> >>]

\* The administrative polygons of the call that contain the center.
Matches ==
    {p \in call.isr_adm2 :
        /\ p.lo.x < call.locality_center.x /\ call.locality_center.x < p.hi.x
        /\ p.lo.y < call.locality_center.y /\ call.locality_center.y < p.hi.y}
WarningNamesLocality ==
    /\ Len(returned.warnings) = 1
    /\ returned.warnings[1].locality_name = call.locality_name
    /\ returned.warnings[1].locality_center = call.locality_center

-----------------------------------------------------------------------------
(* Claims about the reconciliation and the thread pool (SpecPool) *)

Reconciled == pool_pc \in {"dispatch", "running", "done"}
ParsedRows == raw_campaign_data.metadata
\* The rows the reconciliation appended.
BackfilledRows ==
    SubSeq(reconciled_metadata_df, Len(ParsedRows) + 1, Len(reconciled_metadata_df))
RowsOfLocality(rows, locality_id) ==
    {i \in 1..Len(rows) : rows[i].locality_id = locality_id}
Sentinels == {"0", "875", "99999", "9999"}

\* C26: after the reconciliation every locality id of the votes other than
\* the sentinels has a metadata row; each id that had none got exactly one
\* row, with station id "0.0"; no row was added for a sentinel id or for an
\* id the metadata had; the rows the metadata had are unchanged.
C26_MissingLocalitiesBackfilledOnce ==
    Reconciled =>
        /\ \A id \in raw_campaign_data.votes_locality_ids \ Sentinels :
              RowsOfLocality(reconciled_metadata_df, id) # {}
        /\ \A id \in raw_campaign_data.votes_locality_ids :
              Cardinality(RowsOfLocality(BackfilledRows, id)) =
                 IF id \notin Sentinels /\ RowsOfLocality(ParsedRows, id) = {}
                 THEN 1 ELSE 0
        /\ \A i \in 1..Len(BackfilledRows) :
              /\ BackfilledRows[i].ballot_id = "0.0"
              /\ BackfilledRows[i].locality_id \in raw_campaign_data.votes_locality_ids
        /\ SubSeq(reconciled_metadata_df, 1, Len(ParsedRows)) = ParsedRows

\* C26 witness: the votes hold locality 2, which the metadata lacks, and
\* the sentinel 875; one row is added, for locality 2.
C26_Witness ==
    /\ Reconciled
    /\ raw_campaign_data.votes_locality_ids = {"1", "2", "875"}
    /\ Len(ParsedRows) = 1
    /\ Len(BackfilledRows) = 1
    /\ BackfilledRows[1].locality_id = "2"

\* The two center candidates of a locality, in the order they are tried.
CenterCandidates(locality_name) ==
    <<raw_campaign_data.geocoder[locality_name].village,
      raw_campaign_data.geocoder[locality_name].bare>>
InsideCountry(answer) ==
    /\ answer # None
    /\ -50 < answer.longitude /\ answer.longitude < 50
    /\ -50 < answer.latitude /\ answer.latitude < 50
Resolving(locality_name) ==
    {i \in 1..2 : InsideCountry(CenterCandidates(locality_name)[i])}

\* C25: a locality's center is the answer for the first of its two
\* candidates, village-prefixed name then bare name, that geocodes inside
\* the country; with no such candidate the locality's task raises, and
\* enrich_metadata_with_geolocation then raises and returns no table.
C25_CenterOrFatalError ==
    /\ \A locality_name \in DOMAIN futures :
          /\ futures[locality_name].kind \in {"center", "done"} =>
                /\ Resolving(locality_name) # {}
                /\ LET first == CHOOSE i \in Resolving(locality_name) :
                                    \A j \in Resolving(locality_name) : i <= j
                       center == CenterCandidates(locality_name)[first]
                   IN  IF futures[locality_name].kind = "center"
                       THEN futures[locality_name].locality_center = center
                       ELSE \A i \in 1..Len(futures[locality_name].res) :
                               futures[locality_name].res[i].lat_lng.locality_center = center
          /\ futures[locality_name].kind = "raise" => Resolving(locality_name) = {}
          /\ Resolving(locality_name) = {} => futures[locality_name].kind \in {"queued", "raise"}
    /\ pool_pc = "done" =>
          (enrich_result.kind = "raise" <=>
              \E locality_name \in DOMAIN futures : Resolving(locality_name) = {})

\* C25 witness: locality a resolved through its bare name after the
\* village-prefixed name geocoded abroad, locality b resolved neither way,
\* a's task ended first, and the call raised.
C25_Witness ==
    /\ pool_pc = "done"
    /\ raw_campaign_data.geocoder["a"] = [village |-> Outside, bare |-> InsideToo]
    /\ raw_campaign_data.geocoder["b"] = [village |-> None, bare |-> Outside]
    /\ finished = <<"a", "b">>
    /\ futures["a"].kind = "done"
    /\ futures["a"].res[1].lat_lng.locality_center = InsideToo
    /\ enrich_result = Raised("ValueError")

-----------------------------------------------------------------------------
(* Claims about the memoized calls of the worker threads (SpecThreads) *)

\* C28: however the memoized calls of the worker threads interleave, equal
\* arguments included, no call reads a cache file that another thread has
\* created and not finished writing, and no two threads write the same
\* cache file.
C28_NoTornReadNoSharedWrite ==
    /\ torn = {}
    /\ \A f \in DOMAIN writers : Cardinality(writers[f]) <= 1

-----------------------------------------------------------------------------
(* Claims about the files a run leaves behind (SpecCLI) *)

\* C29: when the run has ended, normally or by an error at any step, every
\* campaign it wrote a file for has both its .metadata and its .data file.
C29_NoCampaignLeftWithOneFile ==
    pc = "exited" =>
        \A name \in CampaignNames :
            (out_files[name].metadata = "new" \/ out_files[name].data = "new") =>
                (out_files[name].metadata # "absent" /\ out_files[name].data # "absent")

=============================================================================
